---- MODULE Spec2Model ----
(***************************************************************************)
(* The conversation orchestration core of the surf trip planner: the       *)
(* shared AgentState, the node functions, the routing functions and the    *)
(* compiled graph of surf_planner/agent.  One run of the graph is one      *)
(* behaviour: Init is the state handed to agent.invoke, every action is    *)
(* one superstep (a node, the merge of its update, the routing decision).  *)
(***************************************************************************)
EXTENDS Integers, Sequences, FiniteSets, TLC

(* ------------------------------ bounds --------------------------------- *)
\* the planner requests at most MaxCalls tool calls in a modelled run
MaxCalls == 3
\* the reference dates get_weekend_dates is applied to: MaxDays consecutive
\* days from Monday 2025-09-01
MaxDays == 56
\* split_chat_and_scratchpad is applied to the message lists of at most
\* MaxMsgs messages
MaxMsgs == 3

(* --------------------------- Python values ----------------------------- *)
\* None, str and datetime.date values; a Python str is named by the TLA+
\* string of its text, its characters are given by Chars
None == [t |-> "none"]
Str(s) == [t |-> "str", s |-> s]
Date(n) == [t |-> "date", ord |-> n]
List(items) == [t |-> "list", items |-> items]
Dict(d) == [t |-> "dict", d |-> d]
EmptyObject == << >>

\* the outcome of a call: a returned value or a raised exception
Ok(v) == [ok |-> TRUE, val |-> v]
Raise(e) == [ok |-> FALSE, exc |-> e]

\* Python truthiness of a value (bool(v))
Truthy(v) ==
    CASE v.t = "none" -> FALSE
      [] v.t = "str" -> v.s # ""
      [] v.t = "list" -> v.items # << >>
      [] v.t = "dict" -> DOMAIN v.d # {}
      [] OTHER -> TRUE

\* dict.get(key) with the default None
Get(d, key) == IF key \in DOMAIN d THEN d[key] ELSE None

(* ------------------------------ strings -------------------------------- *)
\* the characters of the texts the model, the tools and the code produce
CharTable ==
       ("{\"intent\": \"update_details\"}" :> <<"{", "\"", "i", "n", "t", "e", "n", "t", "\"", ":", " ", "\"", "u", "p", "d", "a", "t", "e", "_", "d", "e", "t", "a", "i", "l", "s", "\"", "}">>)
    @@ ("{\"intent\": \"chat\"}" :> <<"{", "\"", "i", "n", "t", "e", "n", "t", "\"", ":", " ", "\"", "c", "h", "a", "t", "\"", "}">>)
    @@ ("{\"intent\": \"error\"}" :> <<"{", "\"", "i", "n", "t", "e", "n", "t", "\"", ":", " ", "\"", "e", "r", "r", "o", "r", "\"", "}">>)
    @@ ("{\"intent\": \"clarify_query\"}" :> <<"{", "\"", "i", "n", "t", "e", "n", "t", "\"", ":", " ", "\"", "c", "l", "a", "r", "i", "f", "y", "_", "q", "u", "e", "r", "y", "\"", "}">>)
    @@ ("{\"intent\": \"end_conversation\"}" :> <<"{", "\"", "i", "n", "t", "e", "n", "t", "\"", ":", " ", "\"", "e", "n", "d", "_", "c", "o", "n", "v", "e", "r", "s", "a", "t", "i", "o", "n", "\"", "}">>)
    @@ ("{\"intent\": \"\"}" :> <<"{", "\"", "i", "n", "t", "e", "n", "t", "\"", ":", " ", "\"", "\"", "}">>)
    @@ ("{\"intent\": null}" :> <<"{", "\"", "i", "n", "t", "e", "n", "t", "\"", ":", " ", "n", "u", "l", "l", "}">>)
    @@ ("{\"action\": \"chat\"}" :> <<"{", "\"", "a", "c", "t", "i", "o", "n", "\"", ":", " ", "\"", "c", "h", "a", "t", "\"", "}">>)
    @@ ("I am not sure." :> <<"I", " ", "a", "m", " ", "n", "o", "t", " ", "s", "u", "r", "e", ".">>)
    @@ ("~~~json\n{\"intent\": \"chat\"}\n~~~" :> <<"~", "~", "~", "j", "s", "o", "n", "\n", "{", "\"", "i", "n", "t", "e", "n", "t", "\"", ":", " ", "\"", "c", "h", "a", "t", "\"", "}", "\n", "~", "~", "~">>)
    @@ ("{\"intent\": }" :> <<"{", "\"", "i", "n", "t", "e", "n", "t", "\"", ":", " ", "}">>)
    @@ ("{\"departure_city\": \"Paris\", \"destination_city\": \"Bayonne\", \"departure_date\": \"2025-09-05\", \"return_date\": \"2025-09-07\"}" :> <<"{", "\"", "d", "e", "p", "a", "r", "t", "u", "r", "e", "_", "c", "i", "t", "y", "\"", ":", " ", "\"", "P", "a", "r", "i", "s", "\"", ",", " ", "\"", "d", "e", "s", "t", "i", "n", "a", "t", "i", "o", "n", "_", "c", "i", "t", "y", "\"", ":", " ", "\"", "B", "a", "y", "o", "n", "n", "e", "\"", ",", " ", "\"", "d", "e", "p", "a", "r", "t", "u", "r", "e", "_", "d", "a", "t", "e", "\"", ":", " ", "\"", "2", "0", "2", "5", "-", "0", "9", "-", "0", "5", "\"", ",", " ", "\"", "r", "e", "t", "u", "r", "n", "_", "d", "a", "t", "e", "\"", ":", " ", "\"", "2", "0", "2", "5", "-", "0", "9", "-", "0", "7", "\"", "}">>)
    @@ ("{\"destination_city\": \"Bayonne\"}" :> <<"{", "\"", "d", "e", "s", "t", "i", "n", "a", "t", "i", "o", "n", "_", "c", "i", "t", "y", "\"", ":", " ", "\"", "B", "a", "y", "o", "n", "n", "e", "\"", "}">>)
    @@ ("{\"departure_date\": \"next Thursday\"}" :> <<"{", "\"", "d", "e", "p", "a", "r", "t", "u", "r", "e", "_", "d", "a", "t", "e", "\"", ":", " ", "\"", "n", "e", "x", "t", " ", "T", "h", "u", "r", "s", "d", "a", "y", "\"", "}">>)
    @@ ("{\"departure_city\": \"\", \"destination_city\": \"Bayonne\", \"departure_date\": \"2025-09-05\", \"desired_surf_conditions\": \"big waves\"}" :> <<"{", "\"", "d", "e", "p", "a", "r", "t", "u", "r", "e", "_", "c", "i", "t", "y", "\"", ":", " ", "\"", "\"", ",", " ", "\"", "d", "e", "s", "t", "i", "n", "a", "t", "i", "o", "n", "_", "c", "i", "t", "y", "\"", ":", " ", "\"", "B", "a", "y", "o", "n", "n", "e", "\"", ",", " ", "\"", "d", "e", "p", "a", "r", "t", "u", "r", "e", "_", "d", "a", "t", "e", "\"", ":", " ", "\"", "2", "0", "2", "5", "-", "0", "9", "-", "0", "5", "\"", ",", " ", "\"", "d", "e", "s", "i", "r", "e", "d", "_", "s", "u", "r", "f", "_", "c", "o", "n", "d", "i", "t", "i", "o", "n", "s", "\"", ":", " ", "\"", "b", "i", "g", " ", "w", "a", "v", "e", "s", "\"", "}">>)
    @@ ("{\"return_date\": null}" :> <<"{", "\"", "r", "e", "t", "u", "r", "n", "_", "d", "a", "t", "e", "\"", ":", " ", "n", "u", "l", "l", "}">>)
    @@ ("Sorry, no details." :> <<"S", "o", "r", "r", "y", ",", " ", "n", "o", " ", "d", "e", "t", "a", "i", "l", "s", ".">>)
    @@ ("{}" :> <<"{", "}">>)
    @@ ("Updated: {\"departure_city\": \"Lyon\", \"departure_date\": \"2025-09-07\"} Done." :> <<"U", "p", "d", "a", "t", "e", "d", ":", " ", "{", "\"", "d", "e", "p", "a", "r", "t", "u", "r", "e", "_", "c", "i", "t", "y", "\"", ":", " ", "\"", "L", "y", "o", "n", "\"", ",", " ", "\"", "d", "e", "p", "a", "r", "t", "u", "r", "e", "_", "d", "a", "t", "e", "\"", ":", " ", "\"", "2", "0", "2", "5", "-", "0", "9", "-", "0", "7", "\"", "}", " ", "D", "o", "n", "e", ".">>)
    @@ ("{\"departure_city\": \"Lyon\", \"departure_date\": \"2025-09-07\"}" :> <<"{", "\"", "d", "e", "p", "a", "r", "t", "u", "r", "e", "_", "c", "i", "t", "y", "\"", ":", " ", "\"", "L", "y", "o", "n", "\"", ",", " ", "\"", "d", "e", "p", "a", "r", "t", "u", "r", "e", "_", "d", "a", "t", "e", "\"", ":", " ", "\"", "2", "0", "2", "5", "-", "0", "9", "-", "0", "7", "\"", "}">>)
    @@ ("Yes." :> <<"Y", "e", "s", ".">>)
    @@ ("No, the wind is too strong." :> <<"N", "o", ",", " ", "t", "h", "e", " ", "w", "i", "n", "d", " ", "i", "s", " ", "t", "o", "o", " ", "s", "t", "r", "o", "n", "g", ".">>)
    @@ ("Not in my eyes." :> <<"N", "o", "t", " ", "i", "n", " ", "m", "y", " ", "e", "y", "e", "s", ".">>)
    @@ ("No forecast data could be retrieved for the specified dates." :> <<"N", "o", " ", "f", "o", "r", "e", "c", "a", "s", "t", " ", "d", "a", "t", "a", " ", "c", "o", "u", "l", "d", " ", "b", "e", " ", "r", "e", "t", "r", "i", "e", "v", "e", "d", " ", "f", "o", "r", " ", "t", "h", "e", " ", "s", "p", "e", "c", "i", "f", "i", "e", "d", " ", "d", "a", "t", "e", "s", ".">>)
    @@ ("Service Error: Geocoding failed for 'Bayonne': timeout" :> <<"S", "e", "r", "v", "i", "c", "e", " ", "E", "r", "r", "o", "r", ":", " ", "G", "e", "o", "c", "o", "d", "i", "n", "g", " ", "f", "a", "i", "l", "e", "d", " ", "f", "o", "r", " ", "'", "B", "a", "y", "o", "n", "n", "e", "'", ":", " ", "t", "i", "m", "e", "o", "u", "t">>)
    @@ ("An unexpected error occurred: 503 Server Error" :> <<"A", "n", " ", "u", "n", "e", "x", "p", "e", "c", "t", "e", "d", " ", "e", "r", "r", "o", "r", " ", "o", "c", "c", "u", "r", "r", "e", "d", ":", " ", "5", "0", "3", " ", "S", "e", "r", "v", "e", "r", " ", "E", "r", "r", "o", "r">>)
    @@ ("No train journeys were found from Paris to Bayonne." :> <<"N", "o", " ", "t", "r", "a", "i", "n", " ", "j", "o", "u", "r", "n", "e", "y", "s", " ", "w", "e", "r", "e", " ", "f", "o", "u", "n", "d", " ", "f", "r", "o", "m", " ", "P", "a", "r", "i", "s", " ", "t", "o", " ", "B", "a", "y", "o", "n", "n", "e", ".">>)
    @@ ("Journeys found, but none match the exact requested date of 2025-09-05. They might be on the following day." :> <<"J", "o", "u", "r", "n", "e", "y", "s", " ", "f", "o", "u", "n", "d", ",", " ", "b", "u", "t", " ", "n", "o", "n", "e", " ", "m", "a", "t", "c", "h", " ", "t", "h", "e", " ", "e", "x", "a", "c", "t", " ", "r", "e", "q", "u", "e", "s", "t", "e", "d", " ", "d", "a", "t", "e", " ", "o", "f", " ", "2", "0", "2", "5", "-", "0", "9", "-", "0", "5", ".", " ", "T", "h", "e", "y", " ", "m", "i", "g", "h", "t", " ", "b", "e", " ", "o", "n", " ", "t", "h", "e", " ", "f", "o", "l", "l", "o", "w", "i", "n", "g", " ", "d", "a", "y", ".">>)
    @@ ("Error: Station 'Paris' not found." :> <<"E", "r", "r", "o", "r", ":", " ", "S", "t", "a", "t", "i", "o", "n", " ", "'", "P", "a", "r", "i", "s", "'", " ", "n", "o", "t", " ", "f", "o", "u", "n", "d", ".">>)
    @@ ("An unexpected error occurred while searching for trains: 503 Server Error" :> <<"A", "n", " ", "u", "n", "e", "x", "p", "e", "c", "t", "e", "d", " ", "e", "r", "r", "o", "r", " ", "o", "c", "c", "u", "r", "r", "e", "d", " ", "w", "h", "i", "l", "e", " ", "s", "e", "a", "r", "c", "h", "i", "n", "g", " ", "f", "o", "r", " ", "t", "r", "a", "i", "n", "s", ":", " ", "5", "0", "3", " ", "S", "e", "r", "v", "e", "r", " ", "E", "r", "r", "o", "r">>)
    @@ ("error" :> <<"e", "r", "r", "o", "r">>)
    @@ ("yes" :> <<"y", "e", "s">>)
    @@ ("{" :> <<"{">>)
    @@ ("}" :> <<"}">>)
    @@ ("" :> <<>>)
    @@ ("\n~~~\nDone." :> <<"\n", "~", "~", "~", "\n", "D", "o", "n", "e", ".">>)
    @@ ("{\"intent\": \"chat\"}\n~~~\nDone." :> <<"{", "\"", "i", "n", "t", "e", "n", "t", "\"", ":", " ", "\"", "c", "h", "a", "t", "\"", "}", "\n", "~", "~", "~", "\n", "D", "o", "n", "e", ".">>)
    @@ (" (see {docs})" :> <<" ", "(", "s", "e", "e", " ", "{", "d", "o", "c", "s", "}", ")">>)
    @@ ("{\"intent\": \"chat\"} (see {docs})" :> <<"{", "\"", "i", "n", "t", "e", "n", "t", "\"", ":", " ", "\"", "c", "h", "a", "t", "\"", "}", " ", "(", "s", "e", "e", " ", "{", "d", "o", "c", "s", "}", ")">>)
    @@ ("{}\n~~~\nDone." :> <<"{", "}", "\n", "~", "~", "~", "\n", "D", "o", "n", "e", ".">>)
    @@ ("{} (see {docs})" :> <<"{", "}", " ", "(", "s", "e", "e", " ", "{", "d", "o", "c", "s", "}", ")">>)
    @@ ("{\"return_date\": null}\n~~~\nDone." :> <<"{", "\"", "r", "e", "t", "u", "r", "n", "_", "d", "a", "t", "e", "\"", ":", " ", "n", "u", "l", "l", "}", "\n", "~", "~", "~", "\n", "D", "o", "n", "e", ".">>)
    @@ ("{\"return_date\": null} (see {docs})" :> <<"{", "\"", "r", "e", "t", "u", "r", "n", "_", "d", "a", "t", "e", "\"", ":", " ", "n", "u", "l", "l", "}", " ", "(", "s", "e", "e", " ", "{", "d", "o", "c", "s", "}", ")">>)
    @@ ("{\"intent\": }\n~~~\nDone." :> <<"{", "\"", "i", "n", "t", "e", "n", "t", "\"", ":", " ", "}", "\n", "~", "~", "~", "\n", "D", "o", "n", "e", ".">>)
    @@ ("{\"intent\": } (see {docs})" :> <<"{", "\"", "i", "n", "t", "e", "n", "t", "\"", ":", " ", "}", " ", "(", "s", "e", "e", " ", "{", "d", "o", "c", "s", "}", ")">>)
    @@ ("I am not sure.\n~~~\nDone." :> <<"I", " ", "a", "m", " ", "n", "o", "t", " ", "s", "u", "r", "e", ".", "\n", "~", "~", "~", "\n", "D", "o", "n", "e", ".">>)
    @@ ("I am not sure. (see {docs})" :> <<"I", " ", "a", "m", " ", "n", "o", "t", " ", "s", "u", "r", "e", ".", " ", "(", "s", "e", "e", " ", "{", "d", "o", "c", "s", "}", ")">>)
    @@ ("{\"intent\": \"chat\"" :> <<"{", "\"", "i", "n", "t", "e", "n", "t", "\"", ":", " ", "\"", "c", "h", "a", "t", "\"">>)
    @@ ("{\"intent\": \"chat\"\n~~~\nDone." :> <<"{", "\"", "i", "n", "t", "e", "n", "t", "\"", ":", " ", "\"", "c", "h", "a", "t", "\"", "\n", "~", "~", "~", "\n", "D", "o", "n", "e", ".">>)
    @@ ("{\"intent\": \"chat\" (see {docs})" :> <<"{", "\"", "i", "n", "t", "e", "n", "t", "\"", ":", " ", "\"", "c", "h", "a", "t", "\"", " ", "(", "s", "e", "e", " ", "{", "d", "o", "c", "s", "}", ")">>)
    @@ ("\"intent\": \"chat\"}" :> <<"\"", "i", "n", "t", "e", "n", "t", "\"", ":", " ", "\"", "c", "h", "a", "t", "\"", "}">>)
    @@ ("\"intent\": \"chat\"}\n~~~\nDone." :> <<"\"", "i", "n", "t", "e", "n", "t", "\"", ":", " ", "\"", "c", "h", "a", "t", "\"", "}", "\n", "~", "~", "~", "\n", "D", "o", "n", "e", ".">>)
    @@ ("\"intent\": \"chat\"} (see {docs})" :> <<"\"", "i", "n", "t", "e", "n", "t", "\"", ":", " ", "\"", "c", "h", "a", "t", "\"", "}", " ", "(", "s", "e", "e", " ", "{", "d", "o", "c", "s", "}", ")">>)
    @@ ("~~~json\n" :> <<"~", "~", "~", "j", "s", "o", "n", "\n">>)
    @@ ("~~~json\n{\"intent\": \"chat\"}" :> <<"~", "~", "~", "j", "s", "o", "n", "\n", "{", "\"", "i", "n", "t", "e", "n", "t", "\"", ":", " ", "\"", "c", "h", "a", "t", "\"", "}">>)
    @@ ("~~~json\n{\"intent\": \"chat\"}\n~~~\nDone." :> <<"~", "~", "~", "j", "s", "o", "n", "\n", "{", "\"", "i", "n", "t", "e", "n", "t", "\"", ":", " ", "\"", "c", "h", "a", "t", "\"", "}", "\n", "~", "~", "~", "\n", "D", "o", "n", "e", ".">>)
    @@ ("~~~json\n{\"intent\": \"chat\"} (see {docs})" :> <<"~", "~", "~", "j", "s", "o", "n", "\n", "{", "\"", "i", "n", "t", "e", "n", "t", "\"", ":", " ", "\"", "c", "h", "a", "t", "\"", "}", " ", "(", "s", "e", "e", " ", "{", "d", "o", "c", "s", "}", ")">>)
    @@ ("~~~json\n{}" :> <<"~", "~", "~", "j", "s", "o", "n", "\n", "{", "}">>)
    @@ ("~~~json\n{}\n~~~\nDone." :> <<"~", "~", "~", "j", "s", "o", "n", "\n", "{", "}", "\n", "~", "~", "~", "\n", "D", "o", "n", "e", ".">>)
    @@ ("~~~json\n{} (see {docs})" :> <<"~", "~", "~", "j", "s", "o", "n", "\n", "{", "}", " ", "(", "s", "e", "e", " ", "{", "d", "o", "c", "s", "}", ")">>)
    @@ ("~~~json\n{\"return_date\": null}" :> <<"~", "~", "~", "j", "s", "o", "n", "\n", "{", "\"", "r", "e", "t", "u", "r", "n", "_", "d", "a", "t", "e", "\"", ":", " ", "n", "u", "l", "l", "}">>)
    @@ ("~~~json\n{\"return_date\": null}\n~~~\nDone." :> <<"~", "~", "~", "j", "s", "o", "n", "\n", "{", "\"", "r", "e", "t", "u", "r", "n", "_", "d", "a", "t", "e", "\"", ":", " ", "n", "u", "l", "l", "}", "\n", "~", "~", "~", "\n", "D", "o", "n", "e", ".">>)
    @@ ("~~~json\n{\"return_date\": null} (see {docs})" :> <<"~", "~", "~", "j", "s", "o", "n", "\n", "{", "\"", "r", "e", "t", "u", "r", "n", "_", "d", "a", "t", "e", "\"", ":", " ", "n", "u", "l", "l", "}", " ", "(", "s", "e", "e", " ", "{", "d", "o", "c", "s", "}", ")">>)
    @@ ("~~~json\n{\"intent\": }" :> <<"~", "~", "~", "j", "s", "o", "n", "\n", "{", "\"", "i", "n", "t", "e", "n", "t", "\"", ":", " ", "}">>)
    @@ ("~~~json\n{\"intent\": }\n~~~\nDone." :> <<"~", "~", "~", "j", "s", "o", "n", "\n", "{", "\"", "i", "n", "t", "e", "n", "t", "\"", ":", " ", "}", "\n", "~", "~", "~", "\n", "D", "o", "n", "e", ".">>)
    @@ ("~~~json\n{\"intent\": } (see {docs})" :> <<"~", "~", "~", "j", "s", "o", "n", "\n", "{", "\"", "i", "n", "t", "e", "n", "t", "\"", ":", " ", "}", " ", "(", "s", "e", "e", " ", "{", "d", "o", "c", "s", "}", ")">>)
    @@ ("~~~json\nI am not sure." :> <<"~", "~", "~", "j", "s", "o", "n", "\n", "I", " ", "a", "m", " ", "n", "o", "t", " ", "s", "u", "r", "e", ".">>)
    @@ ("~~~json\nI am not sure.\n~~~\nDone." :> <<"~", "~", "~", "j", "s", "o", "n", "\n", "I", " ", "a", "m", " ", "n", "o", "t", " ", "s", "u", "r", "e", ".", "\n", "~", "~", "~", "\n", "D", "o", "n", "e", ".">>)
    @@ ("~~~json\nI am not sure. (see {docs})" :> <<"~", "~", "~", "j", "s", "o", "n", "\n", "I", " ", "a", "m", " ", "n", "o", "t", " ", "s", "u", "r", "e", ".", " ", "(", "s", "e", "e", " ", "{", "d", "o", "c", "s", "}", ")">>)
    @@ ("~~~json\n{\"intent\": \"chat\"" :> <<"~", "~", "~", "j", "s", "o", "n", "\n", "{", "\"", "i", "n", "t", "e", "n", "t", "\"", ":", " ", "\"", "c", "h", "a", "t", "\"">>)
    @@ ("~~~json\n{\"intent\": \"chat\"\n~~~\nDone." :> <<"~", "~", "~", "j", "s", "o", "n", "\n", "{", "\"", "i", "n", "t", "e", "n", "t", "\"", ":", " ", "\"", "c", "h", "a", "t", "\"", "\n", "~", "~", "~", "\n", "D", "o", "n", "e", ".">>)
    @@ ("~~~json\n{\"intent\": \"chat\" (see {docs})" :> <<"~", "~", "~", "j", "s", "o", "n", "\n", "{", "\"", "i", "n", "t", "e", "n", "t", "\"", ":", " ", "\"", "c", "h", "a", "t", "\"", " ", "(", "s", "e", "e", " ", "{", "d", "o", "c", "s", "}", ")">>)
    @@ ("~~~json\n\"intent\": \"chat\"}" :> <<"~", "~", "~", "j", "s", "o", "n", "\n", "\"", "i", "n", "t", "e", "n", "t", "\"", ":", " ", "\"", "c", "h", "a", "t", "\"", "}">>)
    @@ ("~~~json\n\"intent\": \"chat\"}\n~~~\nDone." :> <<"~", "~", "~", "j", "s", "o", "n", "\n", "\"", "i", "n", "t", "e", "n", "t", "\"", ":", " ", "\"", "c", "h", "a", "t", "\"", "}", "\n", "~", "~", "~", "\n", "D", "o", "n", "e", ".">>)
    @@ ("~~~json\n\"intent\": \"chat\"} (see {docs})" :> <<"~", "~", "~", "j", "s", "o", "n", "\n", "\"", "i", "n", "t", "e", "n", "t", "\"", ":", " ", "\"", "c", "h", "a", "t", "\"", "}", " ", "(", "s", "e", "e", " ", "{", "d", "o", "c", "s", "}", ")">>)
    @@ ("Here you go:\n~~~json\n" :> <<"H", "e", "r", "e", " ", "y", "o", "u", " ", "g", "o", ":", "\n", "~", "~", "~", "j", "s", "o", "n", "\n">>)
    @@ ("Here you go:\n~~~json\n{\"intent\": \"chat\"}" :> <<"H", "e", "r", "e", " ", "y", "o", "u", " ", "g", "o", ":", "\n", "~", "~", "~", "j", "s", "o", "n", "\n", "{", "\"", "i", "n", "t", "e", "n", "t", "\"", ":", " ", "\"", "c", "h", "a", "t", "\"", "}">>)
    @@ ("Here you go:\n~~~json\n{\"intent\": \"chat\"}\n~~~\nDone." :> <<"H", "e", "r", "e", " ", "y", "o", "u", " ", "g", "o", ":", "\n", "~", "~", "~", "j", "s", "o", "n", "\n", "{", "\"", "i", "n", "t", "e", "n", "t", "\"", ":", " ", "\"", "c", "h", "a", "t", "\"", "}", "\n", "~", "~", "~", "\n", "D", "o", "n", "e", ".">>)
    @@ ("Here you go:\n~~~json\n{\"intent\": \"chat\"} (see {docs})" :> <<"H", "e", "r", "e", " ", "y", "o", "u", " ", "g", "o", ":", "\n", "~", "~", "~", "j", "s", "o", "n", "\n", "{", "\"", "i", "n", "t", "e", "n", "t", "\"", ":", " ", "\"", "c", "h", "a", "t", "\"", "}", " ", "(", "s", "e", "e", " ", "{", "d", "o", "c", "s", "}", ")">>)
    @@ ("Here you go:\n~~~json\n{}" :> <<"H", "e", "r", "e", " ", "y", "o", "u", " ", "g", "o", ":", "\n", "~", "~", "~", "j", "s", "o", "n", "\n", "{", "}">>)
    @@ ("Here you go:\n~~~json\n{}\n~~~\nDone." :> <<"H", "e", "r", "e", " ", "y", "o", "u", " ", "g", "o", ":", "\n", "~", "~", "~", "j", "s", "o", "n", "\n", "{", "}", "\n", "~", "~", "~", "\n", "D", "o", "n", "e", ".">>)
    @@ ("Here you go:\n~~~json\n{} (see {docs})" :> <<"H", "e", "r", "e", " ", "y", "o", "u", " ", "g", "o", ":", "\n", "~", "~", "~", "j", "s", "o", "n", "\n", "{", "}", " ", "(", "s", "e", "e", " ", "{", "d", "o", "c", "s", "}", ")">>)
    @@ ("Here you go:\n~~~json\n{\"return_date\": null}" :> <<"H", "e", "r", "e", " ", "y", "o", "u", " ", "g", "o", ":", "\n", "~", "~", "~", "j", "s", "o", "n", "\n", "{", "\"", "r", "e", "t", "u", "r", "n", "_", "d", "a", "t", "e", "\"", ":", " ", "n", "u", "l", "l", "}">>)
    @@ ("Here you go:\n~~~json\n{\"return_date\": null}\n~~~\nDone." :> <<"H", "e", "r", "e", " ", "y", "o", "u", " ", "g", "o", ":", "\n", "~", "~", "~", "j", "s", "o", "n", "\n", "{", "\"", "r", "e", "t", "u", "r", "n", "_", "d", "a", "t", "e", "\"", ":", " ", "n", "u", "l", "l", "}", "\n", "~", "~", "~", "\n", "D", "o", "n", "e", ".">>)
    @@ ("Here you go:\n~~~json\n{\"return_date\": null} (see {docs})" :> <<"H", "e", "r", "e", " ", "y", "o", "u", " ", "g", "o", ":", "\n", "~", "~", "~", "j", "s", "o", "n", "\n", "{", "\"", "r", "e", "t", "u", "r", "n", "_", "d", "a", "t", "e", "\"", ":", " ", "n", "u", "l", "l", "}", " ", "(", "s", "e", "e", " ", "{", "d", "o", "c", "s", "}", ")">>)
    @@ ("Here you go:\n~~~json\n{\"intent\": }" :> <<"H", "e", "r", "e", " ", "y", "o", "u", " ", "g", "o", ":", "\n", "~", "~", "~", "j", "s", "o", "n", "\n", "{", "\"", "i", "n", "t", "e", "n", "t", "\"", ":", " ", "}">>)
    @@ ("Here you go:\n~~~json\n{\"intent\": }\n~~~\nDone." :> <<"H", "e", "r", "e", " ", "y", "o", "u", " ", "g", "o", ":", "\n", "~", "~", "~", "j", "s", "o", "n", "\n", "{", "\"", "i", "n", "t", "e", "n", "t", "\"", ":", " ", "}", "\n", "~", "~", "~", "\n", "D", "o", "n", "e", ".">>)
    @@ ("Here you go:\n~~~json\n{\"intent\": } (see {docs})" :> <<"H", "e", "r", "e", " ", "y", "o", "u", " ", "g", "o", ":", "\n", "~", "~", "~", "j", "s", "o", "n", "\n", "{", "\"", "i", "n", "t", "e", "n", "t", "\"", ":", " ", "}", " ", "(", "s", "e", "e", " ", "{", "d", "o", "c", "s", "}", ")">>)
    @@ ("Here you go:\n~~~json\nI am not sure." :> <<"H", "e", "r", "e", " ", "y", "o", "u", " ", "g", "o", ":", "\n", "~", "~", "~", "j", "s", "o", "n", "\n", "I", " ", "a", "m", " ", "n", "o", "t", " ", "s", "u", "r", "e", ".">>)
    @@ ("Here you go:\n~~~json\nI am not sure.\n~~~\nDone." :> <<"H", "e", "r", "e", " ", "y", "o", "u", " ", "g", "o", ":", "\n", "~", "~", "~", "j", "s", "o", "n", "\n", "I", " ", "a", "m", " ", "n", "o", "t", " ", "s", "u", "r", "e", ".", "\n", "~", "~", "~", "\n", "D", "o", "n", "e", ".">>)
    @@ ("Here you go:\n~~~json\nI am not sure. (see {docs})" :> <<"H", "e", "r", "e", " ", "y", "o", "u", " ", "g", "o", ":", "\n", "~", "~", "~", "j", "s", "o", "n", "\n", "I", " ", "a", "m", " ", "n", "o", "t", " ", "s", "u", "r", "e", ".", " ", "(", "s", "e", "e", " ", "{", "d", "o", "c", "s", "}", ")">>)
    @@ ("Here you go:\n~~~json\n{\"intent\": \"chat\"" :> <<"H", "e", "r", "e", " ", "y", "o", "u", " ", "g", "o", ":", "\n", "~", "~", "~", "j", "s", "o", "n", "\n", "{", "\"", "i", "n", "t", "e", "n", "t", "\"", ":", " ", "\"", "c", "h", "a", "t", "\"">>)
    @@ ("Here you go:\n~~~json\n{\"intent\": \"chat\"\n~~~\nDone." :> <<"H", "e", "r", "e", " ", "y", "o", "u", " ", "g", "o", ":", "\n", "~", "~", "~", "j", "s", "o", "n", "\n", "{", "\"", "i", "n", "t", "e", "n", "t", "\"", ":", " ", "\"", "c", "h", "a", "t", "\"", "\n", "~", "~", "~", "\n", "D", "o", "n", "e", ".">>)
    @@ ("Here you go:\n~~~json\n{\"intent\": \"chat\" (see {docs})" :> <<"H", "e", "r", "e", " ", "y", "o", "u", " ", "g", "o", ":", "\n", "~", "~", "~", "j", "s", "o", "n", "\n", "{", "\"", "i", "n", "t", "e", "n", "t", "\"", ":", " ", "\"", "c", "h", "a", "t", "\"", " ", "(", "s", "e", "e", " ", "{", "d", "o", "c", "s", "}", ")">>)
    @@ ("Here you go:\n~~~json\n\"intent\": \"chat\"}" :> <<"H", "e", "r", "e", " ", "y", "o", "u", " ", "g", "o", ":", "\n", "~", "~", "~", "j", "s", "o", "n", "\n", "\"", "i", "n", "t", "e", "n", "t", "\"", ":", " ", "\"", "c", "h", "a", "t", "\"", "}">>)
    @@ ("Here you go:\n~~~json\n\"intent\": \"chat\"}\n~~~\nDone." :> <<"H", "e", "r", "e", " ", "y", "o", "u", " ", "g", "o", ":", "\n", "~", "~", "~", "j", "s", "o", "n", "\n", "\"", "i", "n", "t", "e", "n", "t", "\"", ":", " ", "\"", "c", "h", "a", "t", "\"", "}", "\n", "~", "~", "~", "\n", "D", "o", "n", "e", ".">>)
    @@ ("Here you go:\n~~~json\n\"intent\": \"chat\"} (see {docs})" :> <<"H", "e", "r", "e", " ", "y", "o", "u", " ", "g", "o", ":", "\n", "~", "~", "~", "j", "s", "o", "n", "\n", "\"", "i", "n", "t", "e", "n", "t", "\"", ":", " ", "\"", "c", "h", "a", "t", "\"", "}", " ", "(", "s", "e", "e", " ", "{", "d", "o", "c", "s", "}", ")">>)
    @@ ("Set {intent}: " :> <<"S", "e", "t", " ", "{", "i", "n", "t", "e", "n", "t", "}", ":", " ">>)
    @@ ("Set {intent}: {\"intent\": \"chat\"}" :> <<"S", "e", "t", " ", "{", "i", "n", "t", "e", "n", "t", "}", ":", " ", "{", "\"", "i", "n", "t", "e", "n", "t", "\"", ":", " ", "\"", "c", "h", "a", "t", "\"", "}">>)
    @@ ("Set {intent}: {\"intent\": \"chat\"}\n~~~\nDone." :> <<"S", "e", "t", " ", "{", "i", "n", "t", "e", "n", "t", "}", ":", " ", "{", "\"", "i", "n", "t", "e", "n", "t", "\"", ":", " ", "\"", "c", "h", "a", "t", "\"", "}", "\n", "~", "~", "~", "\n", "D", "o", "n", "e", ".">>)
    @@ ("Set {intent}: {\"intent\": \"chat\"} (see {docs})" :> <<"S", "e", "t", " ", "{", "i", "n", "t", "e", "n", "t", "}", ":", " ", "{", "\"", "i", "n", "t", "e", "n", "t", "\"", ":", " ", "\"", "c", "h", "a", "t", "\"", "}", " ", "(", "s", "e", "e", " ", "{", "d", "o", "c", "s", "}", ")">>)
    @@ ("Set {intent}: {}" :> <<"S", "e", "t", " ", "{", "i", "n", "t", "e", "n", "t", "}", ":", " ", "{", "}">>)
    @@ ("Set {intent}: {}\n~~~\nDone." :> <<"S", "e", "t", " ", "{", "i", "n", "t", "e", "n", "t", "}", ":", " ", "{", "}", "\n", "~", "~", "~", "\n", "D", "o", "n", "e", ".">>)
    @@ ("Set {intent}: {} (see {docs})" :> <<"S", "e", "t", " ", "{", "i", "n", "t", "e", "n", "t", "}", ":", " ", "{", "}", " ", "(", "s", "e", "e", " ", "{", "d", "o", "c", "s", "}", ")">>)
    @@ ("Set {intent}: {\"return_date\": null}" :> <<"S", "e", "t", " ", "{", "i", "n", "t", "e", "n", "t", "}", ":", " ", "{", "\"", "r", "e", "t", "u", "r", "n", "_", "d", "a", "t", "e", "\"", ":", " ", "n", "u", "l", "l", "}">>)
    @@ ("Set {intent}: {\"return_date\": null}\n~~~\nDone." :> <<"S", "e", "t", " ", "{", "i", "n", "t", "e", "n", "t", "}", ":", " ", "{", "\"", "r", "e", "t", "u", "r", "n", "_", "d", "a", "t", "e", "\"", ":", " ", "n", "u", "l", "l", "}", "\n", "~", "~", "~", "\n", "D", "o", "n", "e", ".">>)
    @@ ("Set {intent}: {\"return_date\": null} (see {docs})" :> <<"S", "e", "t", " ", "{", "i", "n", "t", "e", "n", "t", "}", ":", " ", "{", "\"", "r", "e", "t", "u", "r", "n", "_", "d", "a", "t", "e", "\"", ":", " ", "n", "u", "l", "l", "}", " ", "(", "s", "e", "e", " ", "{", "d", "o", "c", "s", "}", ")">>)
    @@ ("Set {intent}: {\"intent\": }" :> <<"S", "e", "t", " ", "{", "i", "n", "t", "e", "n", "t", "}", ":", " ", "{", "\"", "i", "n", "t", "e", "n", "t", "\"", ":", " ", "}">>)
    @@ ("Set {intent}: {\"intent\": }\n~~~\nDone." :> <<"S", "e", "t", " ", "{", "i", "n", "t", "e", "n", "t", "}", ":", " ", "{", "\"", "i", "n", "t", "e", "n", "t", "\"", ":", " ", "}", "\n", "~", "~", "~", "\n", "D", "o", "n", "e", ".">>)
    @@ ("Set {intent}: {\"intent\": } (see {docs})" :> <<"S", "e", "t", " ", "{", "i", "n", "t", "e", "n", "t", "}", ":", " ", "{", "\"", "i", "n", "t", "e", "n", "t", "\"", ":", " ", "}", " ", "(", "s", "e", "e", " ", "{", "d", "o", "c", "s", "}", ")">>)
    @@ ("Set {intent}: I am not sure." :> <<"S", "e", "t", " ", "{", "i", "n", "t", "e", "n", "t", "}", ":", " ", "I", " ", "a", "m", " ", "n", "o", "t", " ", "s", "u", "r", "e", ".">>)
    @@ ("Set {intent}: I am not sure.\n~~~\nDone." :> <<"S", "e", "t", " ", "{", "i", "n", "t", "e", "n", "t", "}", ":", " ", "I", " ", "a", "m", " ", "n", "o", "t", " ", "s", "u", "r", "e", ".", "\n", "~", "~", "~", "\n", "D", "o", "n", "e", ".">>)
    @@ ("Set {intent}: I am not sure. (see {docs})" :> <<"S", "e", "t", " ", "{", "i", "n", "t", "e", "n", "t", "}", ":", " ", "I", " ", "a", "m", " ", "n", "o", "t", " ", "s", "u", "r", "e", ".", " ", "(", "s", "e", "e", " ", "{", "d", "o", "c", "s", "}", ")">>)
    @@ ("Set {intent}: {\"intent\": \"chat\"" :> <<"S", "e", "t", " ", "{", "i", "n", "t", "e", "n", "t", "}", ":", " ", "{", "\"", "i", "n", "t", "e", "n", "t", "\"", ":", " ", "\"", "c", "h", "a", "t", "\"">>)
    @@ ("Set {intent}: {\"intent\": \"chat\"\n~~~\nDone." :> <<"S", "e", "t", " ", "{", "i", "n", "t", "e", "n", "t", "}", ":", " ", "{", "\"", "i", "n", "t", "e", "n", "t", "\"", ":", " ", "\"", "c", "h", "a", "t", "\"", "\n", "~", "~", "~", "\n", "D", "o", "n", "e", ".">>)
    @@ ("Set {intent}: {\"intent\": \"chat\" (see {docs})" :> <<"S", "e", "t", " ", "{", "i", "n", "t", "e", "n", "t", "}", ":", " ", "{", "\"", "i", "n", "t", "e", "n", "t", "\"", ":", " ", "\"", "c", "h", "a", "t", "\"", " ", "(", "s", "e", "e", " ", "{", "d", "o", "c", "s", "}", ")">>)
    @@ ("Set {intent}: \"intent\": \"chat\"}" :> <<"S", "e", "t", " ", "{", "i", "n", "t", "e", "n", "t", "}", ":", " ", "\"", "i", "n", "t", "e", "n", "t", "\"", ":", " ", "\"", "c", "h", "a", "t", "\"", "}">>)
    @@ ("Set {intent}: \"intent\": \"chat\"}\n~~~\nDone." :> <<"S", "e", "t", " ", "{", "i", "n", "t", "e", "n", "t", "}", ":", " ", "\"", "i", "n", "t", "e", "n", "t", "\"", ":", " ", "\"", "c", "h", "a", "t", "\"", "}", "\n", "~", "~", "~", "\n", "D", "o", "n", "e", ".">>)
    @@ ("Set {intent}: \"intent\": \"chat\"} (see {docs})" :> <<"S", "e", "t", " ", "{", "i", "n", "t", "e", "n", "t", "}", ":", " ", "\"", "i", "n", "t", "e", "n", "t", "\"", ":", " ", "\"", "c", "h", "a", "t", "\"", "}", " ", "(", "s", "e", "e", " ", "{", "d", "o", "c", "s", "}", ")">>)

Chars(s) == CharTable[s]

\* str.lower() on one character
LowerChar(c) ==
    CASE c = "A" -> "a" [] c = "B" -> "b" [] c = "C" -> "c" [] c = "D" -> "d"
      [] c = "E" -> "e" [] c = "F" -> "f" [] c = "G" -> "g" [] c = "H" -> "h"
      [] c = "I" -> "i" [] c = "J" -> "j" [] c = "K" -> "k" [] c = "L" -> "l"
      [] c = "M" -> "m" [] c = "N" -> "n" [] c = "O" -> "o" [] c = "P" -> "p"
      [] c = "Q" -> "q" [] c = "R" -> "r" [] c = "S" -> "s" [] c = "T" -> "t"
      [] c = "U" -> "u" [] c = "V" -> "v" [] c = "W" -> "w" [] c = "X" -> "x"
      [] c = "Y" -> "y" [] c = "Z" -> "z" [] OTHER -> c

\* str.lower()
Lower(cs) == [i \in 1..Len(cs) |-> LowerChar(cs[i])]

\* needle in hay
Contains(hay, needle) ==
    \E i \in 0..(Len(hay) - Len(needle)) : SubSeq(hay, i + 1, i + Len(needle)) = needle

\* str.find(c) and str.rfind(c) for a single character: 0-based index or -1
Find(cs, c) ==
    IF \E i \in 1..Len(cs) : cs[i] = c
    THEN (CHOOSE i \in 1..Len(cs) : cs[i] = c /\ \A j \in 1..(i - 1) : cs[j] # c) - 1
    ELSE -1

RFind(cs, c) ==
    IF \E i \in 1..Len(cs) : cs[i] = c
    THEN (CHOOSE i \in 1..Len(cs) : cs[i] = c /\ \A j \in (i + 1)..Len(cs) : cs[j] # c) - 1
    ELSE -1

(* ------------------------------- helpers ------------------------------- *)
\* json.loads on the texts of the model: the object a text denotes, or
\* JSONDecodeError
JsonLoads(cs) ==
    CASE cs = Chars("{\"intent\": \"update_details\"}") -> Ok(("intent" :> Str("update_details")))
      [] cs = Chars("{\"intent\": \"chat\"}") -> Ok(("intent" :> Str("chat")))
      [] cs = Chars("{\"intent\": \"error\"}") -> Ok(("intent" :> Str("error")))
      [] cs = Chars("{\"intent\": \"clarify_query\"}") -> Ok(("intent" :> Str("clarify_query")))
      [] cs = Chars("{\"intent\": \"end_conversation\"}") -> Ok(("intent" :> Str("end_conversation")))
      [] cs = Chars("{\"intent\": \"\"}") -> Ok(("intent" :> Str("")))
      [] cs = Chars("{\"intent\": null}") -> Ok(("intent" :> None))
      [] cs = Chars("{\"action\": \"chat\"}") -> Ok(("action" :> Str("chat")))
      [] cs = Chars("{\"departure_city\": \"Paris\", \"destination_city\": \"Bayonne\", \"departure_date\": \"2025-09-05\", \"return_date\": \"2025-09-07\"}") -> Ok(("departure_city" :> Str("Paris")) @@ ("destination_city" :> Str("Bayonne")) @@ ("departure_date" :> Str("2025-09-05")) @@ ("return_date" :> Str("2025-09-07")))
      [] cs = Chars("{\"destination_city\": \"Bayonne\"}") -> Ok(("destination_city" :> Str("Bayonne")))
      [] cs = Chars("{\"departure_date\": \"next Thursday\"}") -> Ok(("departure_date" :> Str("next Thursday")))
      [] cs = Chars("{\"departure_city\": \"\", \"destination_city\": \"Bayonne\", \"departure_date\": \"2025-09-05\", \"desired_surf_conditions\": \"big waves\"}") -> Ok(("departure_city" :> Str("")) @@ ("destination_city" :> Str("Bayonne")) @@ ("departure_date" :> Str("2025-09-05")) @@ ("desired_surf_conditions" :> Str("big waves")))
      [] cs = Chars("{\"return_date\": null}") -> Ok(("return_date" :> None))
      [] cs = Chars("{}") -> Ok(EmptyObject)
      [] cs = Chars("{\"departure_city\": \"Lyon\", \"departure_date\": \"2025-09-07\"}") -> Ok(("departure_city" :> Str("Lyon")) @@ ("departure_date" :> Str("2025-09-07")))
      [] OTHER -> Raise("JSONDecodeError")

\* mutant of ParseLlmJsonResponse: the whole text is parsed, not the part
\* between the braces
ParseLlmJsonResponse_WholeText(raw_string) ==
    LET cs == Chars(raw_string)
        start_index == Find(cs, "{")
        end_index == RFind(cs, "}") + 1
    IN  IF start_index = -1 \/ end_index = 0
        THEN None
        ELSE LET r == JsonLoads(cs)
             IN  IF r.ok THEN Dict(r.val) ELSE None

\* parse_llm_json_response: the object between the first '{' and the last
\* '}' of the text, None when there is none
ParseLlmJsonResponse(raw_string) ==
    LET cs == Chars(raw_string)
        start_index == Find(cs, "{")
        end_index == RFind(cs, "}") + 1
    IN  IF start_index = -1 \/ end_index = 0
        THEN None
        ELSE LET r == JsonLoads(SubSeq(cs, start_index + 1, end_index))
             IN  IF r.ok THEN Dict(r.val) ELSE None

(* ------------------------------- messages ------------------------------ *)
\* BaseMessage: type is "human", "ai" or "tool"; content is the text as the
\* sequence of its pieces; id 0 is a message that has no id yet
HumanMessage(content) ==
    [type |-> "human", content |-> content, tool_calls |-> << >>, tool_call_id |-> "", id |-> 0]
AIMessage(content, tool_calls) ==
    [type |-> "ai", content |-> content, tool_calls |-> tool_calls, tool_call_id |-> "", id |-> 0]
\* mutant of ToolMessage: the message does not name the call it answers
ToolMessage_Unlinked(content, tool_call_id) ==
    [type |-> "tool", content |-> content, tool_calls |-> << >>, tool_call_id |-> "", id |-> 0]
ToolMessage(content, tool_call_id) ==
    [type |-> "tool", content |-> content, tool_calls |-> << >>, tool_call_id |-> tool_call_id, id |-> 0]

\* an id no message of the list carries
FreshId(msgs) ==
    IF msgs = << >> THEN 1
    ELSE 1 + (CHOOSE n \in {msgs[i].id : i \in 1..Len(msgs)} :
                 \A i \in 1..Len(msgs) : msgs[i].id <= n)

\* mutant of AddMessages: messages declared without reducer, the update
\* overwrites the list
AddMessages_Overwrites(left, right) == right

\* the reducer of messages (add_messages): a message whose id is already in
\* the list replaces that message in place, any other message is appended
RECURSIVE AddMessages(_, _)
AddMessages(left, right) ==
    IF right = << >> THEN left
    ELSE LET m0 == Head(right)
             m == IF m0.id = 0 THEN [m0 EXCEPT !.id = FreshId(left)] ELSE m0
         IN  IF \E i \in 1..Len(left) : left[i].id = m.id
             THEN AddMessages([left EXCEPT ![CHOOSE i \in 1..Len(left) : left[i].id = m.id] = m],
                              Tail(right))
             ELSE AddMessages(Append(left, m), Tail(right))

\* mutant of OperatorAdd: the new list replaces the old one
OperatorAdd_Replaces(a, b) ==
    IF b.t = "list" THEN Ok(b.items) ELSE Raise("TypeError")

\* mutant of OperatorAdd: a record the list already holds is not added again
OperatorAdd_Dedup(a, b) ==
    IF b.t = "list"
    THEN Ok(a \o SelectSeq(b.items, LAMBDA r : \A i \in 1..Len(a) : a[i] # r))
    ELSE Raise("TypeError")

\* the reducer of the three accumulators (operator.add): list + list; adding
\* a str to a list raises TypeError
OperatorAdd(a, b) ==
    IF b.t = "list" THEN Ok(a \o b.items) ELSE Raise("TypeError")

(* -------------------------------- state -------------------------------- *)
VARIABLES
    messages,                \* AgentState.messages
    trip_details,            \* AgentState.trip_details: key -> value
    current_intent,          \* AgentState.current_intent, None when absent
    error,                   \* AgentState.error, None when absent
    calendar_availabilities, \* accumulator
    surf_forecasts,          \* accumulator
    train_options,           \* accumulator
    pc,                      \* the node to run next, "END" or "RAISED"
    last,                    \* the node that ran last, "START" before the first
    update,                  \* the partial update the last node returned
    exc,                     \* the exception that ended the run, "" if none
    judged,                  \* the judgment text the last edge read from the model, None if it read none
    invoked,                 \* the tool calls the last node made, each with what it answered
    response,                \* the text the model answered to the last node, None if it was not asked
    calls,                   \* tool calls the planner has requested so far
    trace,                   \* the nodes that have run, in order
    arg,                     \* the argument a helper is called with on its own, None in a run
    ret                      \* what the helper returned, None before the call

statevars == <<messages, trip_details, current_intent, error,
               calendar_availabilities, surf_forecasts, train_options>>
vars == <<messages, trip_details, current_intent, error,
          calendar_availabilities, surf_forecasts, train_options,
          pc, last, update, exc, judged, invoked, response, calls, trace,
          arg, ret>>

\* the AgentState as one record
State ==
    [messages |-> messages, trip_details |-> trip_details,
     current_intent |-> current_intent, error |-> error,
     calendar_availabilities |-> calendar_availabilities,
     surf_forecasts |-> surf_forecasts, train_options |-> train_options]

Accumulators == {"calendar_availabilities", "surf_forecasts", "train_options"}

\* the merge of a node's partial update into the state, field by field with
\* the reducers AgentState declares; a field without reducer is overwritten
Merge(st, u) ==
    LET acc(k) == IF k \in DOMAIN u THEN OperatorAdd(st[k], u[k]) ELSE Ok(st[k])
    IN  IF \E k \in Accumulators : ~acc(k).ok
        THEN Raise("TypeError")
        ELSE Ok([messages |-> IF "messages" \in DOMAIN u
                              THEN AddMessages(st.messages, u["messages"])
                              ELSE st.messages,
                 trip_details |-> IF "trip_details" \in DOMAIN u
                                  THEN u["trip_details"] ELSE st.trip_details,
                 current_intent |-> IF "current_intent" \in DOMAIN u
                                    THEN u["current_intent"] ELSE st.current_intent,
                 error |-> IF "error" \in DOMAIN u THEN u["error"] ELSE st.error,
                 calendar_availabilities |-> acc("calendar_availabilities").val,
                 surf_forecasts |-> acc("surf_forecasts").val,
                 train_options |-> acc("train_options").val])

(* --------------------------- dates and tools --------------------------- *)
\* date.fromisoformat on the date texts of the model: the proleptic ordinal
\* of the date, ValueError for a text that is no ISO date
IsoDates ==
    ("2025-09-05" :> 739499) @@ ("2025-09-06" :> 739500) @@ ("2025-09-07" :> 739501)

DateFromIsoformat(s) ==
    IF s \in DOMAIN IsoDates THEN Ok(Date(IsoDates[s])) ELSE Raise("ValueError")

\* the date of an ISO datetime text (datetime.date()), ValueError for a text
\* that is no ISO datetime
IsoDatetimes == ("2025-09-05T08:00:00" :> 739499)

DatetimeFromIsoformat(s) ==
    IF s \in DOMAIN IsoDatetimes THEN Ok(Date(IsoDatetimes[s])) ELSE Raise("ValueError")

\* date.weekday(): Monday is 0, Sunday is 6
Weekday(d) == (d.ord - 1) % 7

\* mutant of GetWeekendDates: a Sunday is sent to the weekend after it
GetWeekendDates_SundayAhead(departure_date) ==
    LET day_of_week == Weekday(departure_date)
        saturday == IF day_of_week = 5 THEN departure_date
                    ELSE Date(departure_date.ord + ((5 - day_of_week) % 7))
        sunday == Date(saturday.ord + 1)
    IN  <<saturday, sunday>>

\* get_weekend_dates: the Saturday and Sunday of the weekend following or
\* including the date
GetWeekendDates(departure_date) ==
    LET day_of_week == Weekday(departure_date)
        saturday == IF day_of_week < 5
                    THEN Date(departure_date.ord + (5 - day_of_week))
                    ELSE IF day_of_week = 5 THEN departure_date
                         ELSE Date(departure_date.ord - 1)
        sunday == Date(saturday.ord + 1)
    IN  <<saturday, sunday>>

\* the tools AgentBuilder.build registers
ToolNames == {"check_calendar", "get_surf_forecast", "find_train_tickets"}

\* TOOL_TO_STATE_MAP
TOOL_TO_STATE_MAP ==
    ("check_calendar" :> "calendar_availabilities")
    @@ ("find_train_tickets" :> "train_options")
    @@ ("get_surf_forecast" :> "surf_forecasts")

\* what the collaborators of each tool can answer
GeolocatorOutcomes == {"found", "RuntimeError"}
OpenMeteoOutcomes == {"forecasts", "empty", "Exception"}
CalendarOutcomes == {"events", "Exception"}
NavitiaOutcomes == {"journeys", "empty", "other_day", "ValueError", "Exception"}

\* get_surf_forecast: a list of DailySurfForecast, one per day of the window
\* (the measures are what Open-Meteo reports), or a str
GetSurfForecast(spot, from_date, to_date, geo, meteo) ==
    IF geo = "RuntimeError"
    THEN Str("Service Error: Geocoding failed for 'Bayonne': timeout")
    ELSE IF meteo = "Exception"
    THEN Str("An unexpected error occurred: 503 Server Error")
    ELSE IF meteo = "empty"
    THEN Str("No forecast data could be retrieved for the specified dates.")
    ELSE List([i \in 1..(to_date.ord - from_date.ord + 1) |->
                  [date |-> Date(from_date.ord + i - 1), spot |-> spot,
                   wave_height_m |-> "1.5", wave_period_s |-> "9.0",
                   wind_speed_kmh |-> "12.0"]])

\* check_calendar: a list of DayAvailability, one per day, or a str; the
\* calendar holds one event, ending at 18:00 on the first day
CheckCalendar(from_date, to_date, cal) ==
    IF cal = "Exception"
    THEN Str("An unexpected error occurred: 503 Server Error")
    ELSE List([i \in 1..(to_date.ord - from_date.ord + 1) |->
                  [date |-> Date(from_date.ord + i - 1),
                   meetings_end_at |-> IF i = 1 THEN "18:00" ELSE "00:00"]])

\* find_train_tickets: a list of TrainTicket or a str; Navitia knows one
\* journey on the day asked for
FindTrainTickets(origin, destination, from_datetime, nav) ==
    IF nav = "ValueError"
    THEN Str("Error: Station 'Paris' not found.")
    ELSE IF nav = "Exception"
    THEN Str("An unexpected error occurred while searching for trains: 503 Server Error")
    ELSE IF nav = "empty"
    THEN Str("No train journeys were found from Paris to Bayonne.")
    ELSE IF nav = "other_day"
    THEN Str("Journeys found, but none match the exact requested date of 2025-09-05. They might be on the following day.")
    ELSE List(<<[date |-> from_datetime, origin |-> "Paris Montparnasse",
                 destination |-> "Bayonne", departure_time |-> "08:12",
                 arrival_time |-> "12:15", duration |-> "4h 3m"]>>)

\* the argument records a planner response can attach to a tool call; the
\* dates are texts, as the model writes them
SurfArgs == [spot |-> "Bayonne", from_date |-> "2025-09-06", to_date |-> "2025-09-06"]
WeekendSurfArgs == [spot |-> "Bayonne", from_date |-> "2025-09-06", to_date |-> "2025-09-07"]
CalendarArgs == [from_date |-> "2025-09-06", to_date |-> "2025-09-07"]
TrainArgs == [origin |-> "Paris", destination |-> "Bayonne", from_datetime |-> "2025-09-05T08:00:00"]
BadTrainArgs == [origin |-> "Paris", destination |-> "Bayonne", from_datetime |-> "tomorrow"]

\* the (name, args) pairs of the tool calls a planner response can carry;
\* book_hotel is a name the registry does not hold
ToolCallChoices ==
    { <<"check_calendar", CalendarArgs>>, <<"get_surf_forecast", SurfArgs>>,
      <<"get_surf_forecast", WeekendSurfArgs>>,
      <<"find_train_tickets", TrainArgs>>, <<"find_train_tickets", BadTrainArgs>>,
      <<"book_hotel", CalendarArgs>> }

\* what the collaborators answer during one call of the named tool; a
\* collaborator the tool does not use is left at its first outcome
EnvsFor(name) ==
    { e \in [geo : IF name = "get_surf_forecast" THEN GeolocatorOutcomes ELSE {"found"},
             meteo : IF name = "get_surf_forecast" THEN OpenMeteoOutcomes ELSE {"forecasts"},
             cal : IF name = "check_calendar" THEN CalendarOutcomes ELSE {"events"},
             nav : IF name = "find_train_tickets" THEN NavitiaOutcomes ELSE {"journeys"}] :
        e.geo = "found" \/ e.meteo = "forecasts" }

\* tool.invoke(args): the arguments are validated against the tool's schema
\* (a date text that is no ISO date raises), then the tool runs
InvokeTool(name, args, env) ==
    LET from == DateFromIsoformat(args.from_date)
        to == DateFromIsoformat(args.to_date)
        from_datetime == DatetimeFromIsoformat(args.from_datetime)
    IN  CASE name = "get_surf_forecast" ->
                IF from.ok /\ to.ok
                THEN Ok(GetSurfForecast(args.spot, from.val, to.val, env.geo, env.meteo))
                ELSE Raise("ValidationError")
          [] name = "check_calendar" ->
                IF from.ok /\ to.ok
                THEN Ok(CheckCalendar(from.val, to.val, env.cal))
                ELSE Raise("ValidationError")
          [] name = "find_train_tickets" ->
                IF from_datetime.ok
                THEN Ok(FindTrainTickets(args.origin, args.destination, from_datetime.val, env.nav))
                ELSE Raise("ValidationError")

\* date.isoformat()
Isoformat(d) == CHOOSE s \in DOMAIN IsoDates : IsoDates[s] = d.ord

\* repr of a record of a tool (to_readable_string), as the pieces of the
\* formatted text
Repr(item) ==
    CASE "spot" \in DOMAIN item ->
             <<"Date: ", Isoformat(item.date), ", Spot: ", item.spot,
               ", Waves: ", item.wave_height_m, "m, Period: ", item.wave_period_s,
               "s, Wind: ", item.wind_speed_kmh, "km/h">>
      [] "meetings_end_at" \in DOMAIN item ->
             IF item.meetings_end_at = "00:00"
             THEN <<Isoformat(item.date), ": Free all day">>
             ELSE <<Isoformat(item.date), ": Available after ", item.meetings_end_at>>
      [] OTHER ->
             <<"Train from ", item.origin, " to ", item.destination, " on ",
               Isoformat(item.date), ": Departs ", item.departure_time,
               ", Arrives ", item.arrival_time, ", Duration: ", item.duration>>

\* ", ".join of the reprs of the items
RECURSIVE JoinReprs(_)
JoinReprs(items) ==
    IF items = << >> THEN << >>
    ELSE IF Len(items) = 1 THEN Repr(items[1])
    ELSE Repr(items[1]) \o <<", ">> \o JoinReprs(Tail(items))

\* str(output) of a tool output, the content of its ToolMessage, as the
\* pieces of the text
StrOf(output) ==
    IF output.t = "str" THEN <<output.s>>
    ELSE <<"[">> \o JoinReprs(output.items) \o <<"]">>

(* -------------------------------- nodes -------------------------------- *)
\* Every node is an operator of the state it reads and of what its external
\* calls answer; it yields Ok(partial update) or Raise(exception).

\* mutant of NodeRouteIntent: without the try block, a response that holds
\* no object or no intent key raises
NodeRouteIntent_Unguarded(st, response_content) ==
    LET intent_json == ParseLlmJsonResponse(response_content)
    IN  IF intent_json.t # "dict" THEN Raise("TypeError")
        ELSE IF "intent" \notin DOMAIN intent_json.d THEN Raise("KeyError")
        ELSE Ok("current_intent" :> intent_json.d["intent"])

\* mutant of NodeRouteIntent: the router also tells the user what it chose
NodeRouteIntent_Echoes(st, response_content) ==
    LET intent_json == ParseLlmJsonResponse(response_content)
        intent == IF intent_json.t = "dict" /\ "intent" \in DOMAIN intent_json.d
                  THEN intent_json.d["intent"]
                  ELSE Str("error")
    IN  Ok(("current_intent" :> intent)
           @@ ("messages" :> <<AIMessage(<<response_content>>, << >>)>>))

\* node_route_intent
NodeRouteIntent(st, response_content) ==
    LET intent_json == ParseLlmJsonResponse(response_content)
        intent == IF intent_json.t = "dict" /\ "intent" \in DOMAIN intent_json.d
                  THEN intent_json.d["intent"]
                  ELSE Str("error")
    IN  Ok("current_intent" :> intent)

\* mutant of NodeUpdateTripDetails: the parsed object replaces the record
\* instead of updating a copy of it
NodeUpdateTripDetails_Resets(st, response_content) ==
    LET parsed_info == ParseLlmJsonResponse(response_content)
    IN  IF parsed_info.t # "dict"
        THEN Ok(EmptyObject)
        ELSE LET updated == parsed_info.d
                 isText(k) == k \in DOMAIN updated /\ updated[k].t = "str"
                 dateKeys == {k \in {"departure_date", "return_date"} : isText(k)}
                 new_trip_details == [k \in DOMAIN updated |->
                                         IF k \in dateKeys
                                         THEN DateFromIsoformat(updated[k].s).val
                                         ELSE updated[k]]
             IN  IF \E k \in dateKeys : ~DateFromIsoformat(updated[k].s).ok
                 THEN Raise("ValueError")
                 ELSE Ok("trip_details" :> new_trip_details)

\* mutant of NodeUpdateTripDetails: a response without an object is reported
\* in the error field
NodeUpdateTripDetails_FlagsError(st, response_content) ==
    LET parsed_info == ParseLlmJsonResponse(response_content)
    IN  IF parsed_info.t # "dict"
        THEN Ok("error" :> Str("Error parsing details."))
        ELSE LET updated == [k \in DOMAIN st.trip_details \cup DOMAIN parsed_info.d |->
                                IF k \in DOMAIN parsed_info.d THEN parsed_info.d[k]
                                ELSE st.trip_details[k]]
                 isText(k) == k \in DOMAIN updated /\ updated[k].t = "str"
                 dateKeys == {k \in {"departure_date", "return_date"} : isText(k)}
                 new_trip_details == [k \in DOMAIN updated |->
                                         IF k \in dateKeys
                                         THEN DateFromIsoformat(updated[k].s).val
                                         ELSE updated[k]]
             IN  IF \E k \in dateKeys : ~DateFromIsoformat(updated[k].s).ok
                 THEN Raise("ValueError")
                 ELSE Ok("trip_details" :> new_trip_details)

\* mutant of NodeUpdateTripDetails: the date texts are stored as they came
NodeUpdateTripDetails_KeepsText(st, response_content) ==
    LET parsed_info == ParseLlmJsonResponse(response_content)
    IN  IF parsed_info.t # "dict"
        THEN Ok(EmptyObject)
        ELSE LET updated == [k \in DOMAIN st.trip_details \cup DOMAIN parsed_info.d |->
                                IF k \in DOMAIN parsed_info.d THEN parsed_info.d[k]
                                ELSE st.trip_details[k]]
                 isText(k) == k \in DOMAIN updated /\ updated[k].t = "str"
                 dateKeys == {k \in {"departure_date", "return_date"} : isText(k)}
             IN  IF \E k \in dateKeys : ~DateFromIsoformat(updated[k].s).ok
                 THEN Raise("ValueError")
                 ELSE Ok("trip_details" :> updated)

\* node_update_trip_details
NodeUpdateTripDetails(st, response_content) ==
    LET parsed_info == ParseLlmJsonResponse(response_content)
    IN  IF parsed_info.t # "dict"
        THEN Ok(EmptyObject)
        ELSE LET updated == [k \in DOMAIN st.trip_details \cup DOMAIN parsed_info.d |->
                                IF k \in DOMAIN parsed_info.d THEN parsed_info.d[k]
                                ELSE st.trip_details[k]]
                 isText(k) == k \in DOMAIN updated /\ updated[k].t = "str"
                 dateKeys == {k \in {"departure_date", "return_date"} : isText(k)}
                 new_trip_details == [k \in DOMAIN updated |->
                                         IF k \in dateKeys
                                         THEN DateFromIsoformat(updated[k].s).val
                                         ELSE updated[k]]
             IN  IF \E k \in dateKeys : ~DateFromIsoformat(updated[k].s).ok
                 THEN Raise("ValueError")
                 ELSE Ok("trip_details" :> new_trip_details)

\* mutant of NodeChatWithUser: the intent is cleared once it was served
NodeChatWithUser_ResetsIntent(st, response_content) ==
    Ok(("messages" :> <<AIMessage(<<response_content>>, << >>)>>)
       @@ ("current_intent" :> None))

\* node_chat_with_user
NodeChatWithUser(st, response_content) ==
    Ok("messages" :> <<AIMessage(<<response_content>>, << >>)>>)

\* node_request_missing_details
NodeRequestMissingDetails(st, response_content) ==
    Ok("messages" :> <<AIMessage(<<response_content>>, << >>)>>)

\* mutant of NodeCheckSurfForecast: the forecast is asked for the city of
\* departure
NodeCheckSurfForecast_SpotFromDeparture(st, tool_map, env) ==
    LET departure_date == Get(st.trip_details, "departure_date")
        destination == Get(st.trip_details, "departure_city")
        weekend == GetWeekendDates(departure_date)
        forecast_result == GetSurfForecast(destination.s, weekend[1], weekend[2],
                                           env.geo, env.meteo)
        made == <<[name |-> "get_surf_forecast", id |-> "", out |-> Ok(forecast_result),
                   args |-> [spot |-> destination.s, from_date |-> weekend[1],
                             to_date |-> weekend[2]]]>>
    IN  IF ~Truthy(departure_date) \/ ~Truthy(destination)
        THEN [result |-> Ok("error" :> Str("Missing departure date or destination for forecast.")),
              outs |-> << >>]
        ELSE IF "get_surf_forecast" \notin tool_map
        THEN [result |-> Ok("error" :> Str("Tool 'get_surf_forecast' not found.")),
              outs |-> << >>]
        ELSE IF forecast_result.t = "str"
                /\ Contains(Lower(Chars(forecast_result.s)), Chars("error"))
        THEN [result |-> Ok("error" :> forecast_result), outs |-> made]
        ELSE [result |-> Ok("surf_forecasts" :> forecast_result), outs |-> made]

\* node_check_surf_forecast: result is the node's result, outs the tool call
\* made with what it answered
NodeCheckSurfForecast(st, tool_map, env) ==
    LET departure_date == Get(st.trip_details, "departure_date")
        destination == Get(st.trip_details, "destination_city")
        weekend == GetWeekendDates(departure_date)
        forecast_result == GetSurfForecast(destination.s, weekend[1], weekend[2],
                                           env.geo, env.meteo)
        made == <<[name |-> "get_surf_forecast", id |-> "", out |-> Ok(forecast_result),
                   args |-> [spot |-> destination.s, from_date |-> weekend[1],
                             to_date |-> weekend[2]]]>>
    IN  IF ~Truthy(departure_date) \/ ~Truthy(destination)
        THEN [result |-> Ok("error" :> Str("Missing departure date or destination for forecast.")),
              outs |-> << >>]
        ELSE IF "get_surf_forecast" \notin tool_map
        THEN [result |-> Ok("error" :> Str("Tool 'get_surf_forecast' not found.")),
              outs |-> << >>]
        ELSE IF forecast_result.t = "str"
                /\ Contains(Lower(Chars(forecast_result.s)), Chars("error"))
        THEN [result |-> Ok("error" :> forecast_result), outs |-> made]
        ELSE [result |-> Ok("surf_forecasts" :> forecast_result), outs |-> made]

\* node_inform_user_of_bad_surf
NodeInformUserOfBadSurf(st, response_content) ==
    Ok("messages" :> <<AIMessage(<<response_content>>, << >>)>>)

\* mutant of SplitChatAndScratchpad: the list is scanned from its start, so
\* the chat history ends at the first message of the kind
SplitChatAndScratchpad_FromStart(msgs) ==
    LET real(i) == ~(msgs[i].type = "ai" /\ msgs[i].tool_calls # << >>)
                   /\ msgs[i].type # "tool"
        last_real_message_idx ==
            IF \E i \in 1..Len(msgs) : real(i)
            THEN CHOOSE i \in 1..Len(msgs) : real(i) /\ \A j \in 1..(i - 1) : ~real(j)
            ELSE 0
    IN  <<SubSeq(msgs, 1, last_real_message_idx),
          SubSeq(msgs, last_real_message_idx + 1, Len(msgs))>>

\* mutant of SplitChatAndScratchpad: only tool messages count as scratchpad,
\* an assistant message with tool calls is taken for chat
SplitChatAndScratchpad_ToolsOnly(msgs) ==
    LET real(i) == msgs[i].type # "tool"
        last_real_message_idx ==
            IF \E i \in 1..Len(msgs) : real(i)
            THEN CHOOSE i \in 1..Len(msgs) : real(i) /\ \A j \in (i + 1)..Len(msgs) : ~real(j)
            ELSE 0
    IN  <<SubSeq(msgs, 1, last_real_message_idx),
          SubSeq(msgs, last_real_message_idx + 1, Len(msgs))>>

\* split_chat_and_scratchpad: the chat history ends at the last message that
\* is neither an assistant message with tool calls nor a tool message
SplitChatAndScratchpad(msgs) ==
    LET real(i) == ~(msgs[i].type = "ai" /\ msgs[i].tool_calls # << >>)
                   /\ msgs[i].type # "tool"
        last_real_message_idx ==
            IF \E i \in 1..Len(msgs) : real(i)
            THEN CHOOSE i \in 1..Len(msgs) : real(i) /\ \A j \in (i + 1)..Len(msgs) : ~real(j)
            ELSE 0
    IN  <<SubSeq(msgs, 1, last_real_message_idx),
          SubSeq(msgs, last_real_message_idx + 1, Len(msgs))>>

\* node_plan_travel_logistics: the response of the model with tools is
\* appended as it is, tool calls included; chat_history[-1] raises
\* IndexError on an empty chat history
NodePlanTravelLogistics(st, response_message) ==
    LET chat_history == SplitChatAndScratchpad(st.messages)[1]
    IN  IF chat_history = << >>
        THEN Raise("IndexError")
        ELSE Ok("messages" :> <<response_message>>)

\* the error text of a tool call that raised
CriticalFailure(tool_name) ==
    CASE tool_name = "check_calendar" ->
             "Critical failure in tool 'check_calendar': 1 validation error for CheckCalendarArgs"
      [] tool_name = "get_surf_forecast" ->
             "Critical failure in tool 'get_surf_forecast': 1 validation error for SurfForecastArgs"
      [] tool_name = "find_train_tickets" ->
             "Critical failure in tool 'find_train_tickets': 1 validation error for FindTrainTicketsArgs"

\* the loop of node_execute_tools over the pending calls: result is the
\* node's result, outs the calls made with what each answered
RECURSIVE ExecuteCalls(_, _, _, _, _, _)
RECURSIVE AfterInvoke(_, _, _, _, _, _, _)
ExecuteCalls(tool_calls, envs, tool_map, state_updates, tool_messages, outs) ==
    IF tool_calls = << >>
    THEN [result |-> Ok(("messages" :> tool_messages) @@ state_updates), outs |-> outs]
    ELSE IF Head(tool_calls).name \notin tool_map
    THEN [result |-> Raise("KeyError"), outs |-> outs]
    ELSE AfterInvoke(tool_calls, envs, tool_map, state_updates, tool_messages, outs,
                     InvokeTool(Head(tool_calls).name, Head(tool_calls).args, Head(envs)))

\* mutant of AfterInvoke: a failed call reports the error together with the
\* updates and tool messages of the calls before it
AfterInvoke_KeepsPartial(tool_calls, envs, tool_map, state_updates, tool_messages, outs, r) ==
    LET tool_call == Head(tool_calls)
        tool_name == tool_call.name
        made == Append(outs, [name |-> tool_name, id |-> tool_call.id, out |-> r])
        partial == ("messages" :> tool_messages) @@ state_updates
    IN  IF ~r.ok
        THEN [result |-> Ok(("error" :> Str(CriticalFailure(tool_name))) @@ partial),
              outs |-> made]
        ELSE IF r.val.t = "str" /\ Contains(Lower(Chars(r.val.s)), Chars("error"))
        THEN [result |-> Ok(("error" :> r.val) @@ partial), outs |-> made]
        ELSE ExecuteCalls(Tail(tool_calls), Tail(envs), tool_map,
                          IF tool_name \in DOMAIN TOOL_TO_STATE_MAP
                          THEN (TOOL_TO_STATE_MAP[tool_name] :> r.val) @@ state_updates
                          ELSE state_updates,
                          Append(tool_messages, ToolMessage(StrOf(r.val), tool_call.id)),
                          made)

\* the rest of one iteration of the loop, r being what tool.invoke answered
AfterInvoke(tool_calls, envs, tool_map, state_updates, tool_messages, outs, r) ==
    LET tool_call == Head(tool_calls)
        tool_name == tool_call.name
        made == Append(outs, [name |-> tool_name, id |-> tool_call.id, out |-> r])
    IN  IF ~r.ok
        THEN [result |-> Ok("error" :> Str(CriticalFailure(tool_name))), outs |-> made]
        ELSE IF r.val.t = "str" /\ Contains(Lower(Chars(r.val.s)), Chars("error"))
        THEN [result |-> Ok("error" :> r.val), outs |-> made]
        ELSE ExecuteCalls(Tail(tool_calls), Tail(envs), tool_map,
                          IF tool_name \in DOMAIN TOOL_TO_STATE_MAP
                          THEN (TOOL_TO_STATE_MAP[tool_name] :> r.val) @@ state_updates
                          ELSE state_updates,
                          Append(tool_messages, ToolMessage(StrOf(r.val), tool_call.id)),
                          made)

\* node_execute_tools
NodeExecuteTools(st, tool_map, envs) ==
    LET last_message == st.messages[Len(st.messages)]
    IN  IF last_message.tool_calls = << >>
        THEN [result |-> Ok(EmptyObject), outs |-> << >>]
        ELSE ExecuteCalls(last_message.tool_calls, envs, tool_map, EmptyObject, << >>, << >>)

\* mutant of NodeHandleError: the error field is read without a default
NodeHandleError_NoDefault(st) ==
    LET errtext == IF st.error.t = "none" THEN "None" ELSE st.error.s
    IN  Ok("messages" :>
           <<AIMessage(<<"I'm sorry, I encountered an error and cannot continue. Details: ",
                         errtext>>, << >>)>>)

\* node_handle_error
NodeHandleError(st) ==
    LET errtext == IF st.error.t = "none" THEN "An unknown error occurred." ELSE st.error.s
    IN  Ok("messages" :>
           <<AIMessage(<<"I'm sorry, I encountered an error and cannot continue. Details: ",
                         errtext>>, << >>)>>)

\* mutant of NodeSummarizePlan: the summary is computed but not returned
NodeSummarizePlan_ReturnsNothing(st, response_content) ==
    Ok(EmptyObject)

\* node_summarize_plan
NodeSummarizePlan(st, response_content) ==
    Ok("messages" :> <<AIMessage(<<response_content>>, << >>)>>)

(* -------------------------------- edges -------------------------------- *)
\* edge_from_intent
EdgeFromIntent(st) ==
    LET intent == st.current_intent
    IN  IF ~Truthy(intent) THEN "error" ELSE intent.s

\* mutant of EdgeAfterUpdate: the keys are tested for presence, not for a
\* value that is set
EdgeAfterUpdate_KeyPresence(st) ==
    LET details == st.trip_details
        mandatory_keys == {"departure_city", "destination_city", "departure_date"}
    IN  IF \A key \in mandatory_keys : key \in DOMAIN details
        THEN "details_complete"
        ELSE "details_incomplete"

\* mutant of EdgeAfterUpdate: one mandatory detail is enough
EdgeAfterUpdate_AnyKey(st) ==
    LET details == st.trip_details
        mandatory_keys == {"departure_city", "destination_city", "departure_date"}
    IN  IF \E key \in mandatory_keys : Truthy(Get(details, key))
        THEN "details_complete"
        ELSE "details_incomplete"

\* edge_after_update
EdgeAfterUpdate(st) ==
    LET details == st.trip_details
        mandatory_keys == {"departure_city", "destination_city", "departure_date"}
    IN  IF \A key \in mandatory_keys : Truthy(Get(details, key))
        THEN "details_complete"
        ELSE "details_incomplete"

\* mutant of EdgeAfterForecast: the model is asked whatever the state holds
EdgeAfterForecast_AlwaysAsks(st, response_content) ==
    IF Contains(Lower(Chars(response_content)), Chars("yes"))
    THEN [key |-> "forecast_is_good", asked |-> TRUE]
    ELSE [key |-> "forecast_is_bad", asked |-> TRUE]

\* mutant of EdgeAfterForecast: the answer is searched without lower()
EdgeAfterForecast_CaseSensitive(st, response_content) ==
    LET forecast_data == st.surf_forecasts
    IN  IF forecast_data = << >> \/ Truthy(st.error)
        THEN [key |-> "forecast_is_bad", asked |-> FALSE]
        ELSE IF Contains(Chars(response_content), Chars("yes"))
        THEN [key |-> "forecast_is_good", asked |-> TRUE]
        ELSE [key |-> "forecast_is_bad", asked |-> TRUE]

\* edge_after_forecast: key is the routing key, asked tells whether the
\* model was invoked for a judgment
EdgeAfterForecast(st, response_content) ==
    LET forecast_data == st.surf_forecasts
    IN  IF forecast_data = << >> \/ Truthy(st.error)
        THEN [key |-> "forecast_is_bad", asked |-> FALSE]
        ELSE IF Contains(Lower(Chars(response_content)), Chars("yes"))
        THEN [key |-> "forecast_is_good", asked |-> TRUE]
        ELSE [key |-> "forecast_is_bad", asked |-> TRUE]

\* mutant of EdgeFromPlan: planning continues whatever the last message holds
EdgeFromPlan_AlwaysContinues(st) ==
    "continue_planning"

\* edge_from_plan
EdgeFromPlan(st) ==
    LET last_message == st.messages[Len(st.messages)]
    IN  IF last_message.tool_calls # << >> THEN "continue_planning" ELSE "plan_complete"

\* mutant of EdgeAfterTools: the loop is left once two tool messages are in
\* the state
EdgeAfterTools_Capped(st) ==
    IF Truthy(st.error)
          \/ Cardinality({i \in 1..Len(st.messages) : st.messages[i].type = "tool"}) >= 2
    THEN "error"
    ELSE "continue"

\* mutant of EdgeAfterTools: the loop goes on whatever the batch reported
EdgeAfterTools_IgnoresError(st) ==
    "continue"

\* edge_after_tools
EdgeAfterTools(st) ==
    IF Truthy(st.error) THEN "error" ELSE "continue"

(* -------------------------------- graph -------------------------------- *)
\* the path maps of AgentGraph.build
IntentPathMap ==
    ("update_details" :> "update_trip_details") @@ ("chat" :> "chat_with_user")
    @@ ("error" :> "handle_error")
UpdatePathMap ==
    ("details_complete" :> "check_surf_forecast")
    @@ ("details_incomplete" :> "request_missing_details")
\* mutant of ForecastPathMap: a bad forecast ends the run at the edge
ForecastPathMap_BadEnds ==
    ("forecast_is_good" :> "plan_travel_logistics") @@ ("forecast_is_bad" :> "END")
\* mutant of ForecastPathMap: a bad forecast is handled as an error
ForecastPathMap_BadToError ==
    ("forecast_is_good" :> "plan_travel_logistics") @@ ("forecast_is_bad" :> "handle_error")

ForecastPathMap ==
    ("forecast_is_good" :> "plan_travel_logistics")
    @@ ("forecast_is_bad" :> "inform_user_of_bad_surf")
\* mutant of PlanPathMap: the two keys are mapped the wrong way round
PlanPathMap_Swapped ==
    ("continue_planning" :> "summarize_plan") @@ ("plan_complete" :> "execute_tools")

PlanPathMap ==
    ("continue_planning" :> "execute_tools") @@ ("plan_complete" :> "summarize_plan")
\* mutant of ToolsPathMap: after the tools the forecast is checked again
ToolsPathMap_BackToForecast ==
    ("continue" :> "check_surf_forecast") @@ ("error" :> "handle_error")
\* mutant of ToolsPathMap: after a batch the tools node runs again
ToolsPathMap_Reexecutes ==
    ("continue" :> "execute_tools") @@ ("error" :> "handle_error")

ToolsPathMap ==
    ("continue" :> "plan_travel_logistics") @@ ("error" :> "handle_error")

TerminalNodes ==
    {"chat_with_user", "request_missing_details", "handle_error", "summarize_plan",
     "inform_user_of_bad_surf"}

\* a conditional edge: the node the path map gives for the key the routing
\* function returned; a key the path map does not hold raises KeyError
Branch(path_map, key) ==
    IF key \in DOMAIN path_map THEN Ok(path_map[key]) ELSE Raise("KeyError")

\* the edges of the compiled graph: the node that follows the node on the
\* merged state, "END" after a terminal node; answer is the text the model
\* gives if edge_after_forecast asks it
Route(node, st, answer) ==
    CASE node = "route_intent" -> Branch(IntentPathMap, EdgeFromIntent(st))
      [] node = "update_trip_details" -> Branch(UpdatePathMap, EdgeAfterUpdate(st))
      [] node = "check_surf_forecast" ->
             Branch(ForecastPathMap, EdgeAfterForecast(st, answer).key)
      [] node = "plan_travel_logistics" -> Branch(PlanPathMap, EdgeFromPlan(st))
      [] node = "execute_tools" -> Branch(ToolsPathMap, EdgeAfterTools(st))
      [] node \in TerminalNodes -> Ok("END")

(* ------------------------- external responses -------------------------- *)
\* texts the model answers to the router prompt
RouterResponses ==
    { "{\"intent\": \"update_details\"}", "{\"intent\": \"chat\"}",
      "{\"intent\": \"error\"}", "{\"intent\": \"clarify_query\"}",
      "{\"intent\": \"end_conversation\"}", "{\"intent\": \"\"}",
      "{\"intent\": null}", "{\"action\": \"chat\"}", "I am not sure.",
      "~~~json\n{\"intent\": \"chat\"}\n~~~", "{\"intent\": }" }

\* texts the model answers to the update prompt
UpdateResponses ==
    { "{\"departure_city\": \"Paris\", \"destination_city\": \"Bayonne\", \"departure_date\": \"2025-09-05\", \"return_date\": \"2025-09-07\"}",
      "{\"destination_city\": \"Bayonne\"}",
      "{\"departure_date\": \"next Thursday\"}",
      "{\"departure_city\": \"\", \"destination_city\": \"Bayonne\", \"departure_date\": \"2025-09-05\", \"desired_surf_conditions\": \"big waves\"}",
      "{\"return_date\": null}",
      "Sorry, no details.",
      "{}",
      "Updated: {\"departure_city\": \"Lyon\", \"departure_date\": \"2025-09-07\"} Done." }

\* texts the model answers to the forecast judgment prompt
JudgeResponses ==
    { "Yes.", "No, the wind is too strong.", "Not in my eyes." }

\* the text of a free-form reply of the model
ReplyTexts == { "Sure." }

\* the ids of the tool calls of one assistant turn
CallIds == <<"call_1", "call_2", "call_3", "call_4">>

\* the tool-call lists a planner response can carry when it may still
\* request budget calls
Batches(budget) == UNION { [1..n -> ToolCallChoices] : n \in 0..budget }

ToolCallsOf(batch) ==
    [i \in 1..Len(batch) |-> [id |-> CallIds[i], name |-> batch[i][1], args |-> batch[i][2]]]

\* one answer of the collaborators per pending call
RECURSIVE EnvSeqs(_)
EnvSeqs(tool_calls) ==
    IF tool_calls = << >> THEN { << >> }
    ELSE { <<e>> \o rest : e \in EnvsFor(Head(tool_calls).name),
                           rest \in EnvSeqs(Tail(tool_calls)) }

\* the states agent.invoke is called with: the dialogue so far, the trip
\* details known so far, nothing else
InitialMessages ==
    { <<HumanMessage(<<"I want to surf in Bayonne.">>)>>,
      <<HumanMessage(<<"I want to surf.">>), AIMessage(<<"Where?">>, << >>),
        HumanMessage(<<"In Bayonne.">>)>> }

InitialTripDetails ==
    { EmptyObject,
      ("departure_city" :> Str("Paris")) @@ ("return_date" :> Date(739501)) }

(* ------------------------------- actions ------------------------------- *)
Init ==
    /\ messages \in { AddMessages(<< >>, m) : m \in InitialMessages }
    /\ trip_details \in InitialTripDetails
    /\ current_intent = None
    /\ error = None
    /\ calendar_availabilities = << >>
    /\ surf_forecasts = << >>
    /\ train_options = << >>
    /\ pc = "route_intent"
    /\ last = "START"
    /\ update = EmptyObject
    /\ exc = ""
    /\ judged = None
    /\ invoked = << >>
    /\ response = None
    /\ calls = 0
    /\ trace = << >>
    /\ arg = None
    /\ ret = None

\* one superstep: the update of the node is merged into the state, then the
\* edge of the node picks the next node (answer is what the model says if the
\* edge asks it); an exception of the node, of a reducer or of the edge ends
\* the run
Commit(node, res, answer) ==
    \E merged \in { IF res.ok THEN Merge(State, res.val) ELSE res } :
    \E next \in { IF merged.ok THEN Route(node, merged.val, answer) ELSE merged } :
    \E st \in { IF merged.ok THEN merged.val ELSE State } :
        /\ messages' = st.messages
        /\ trip_details' = st.trip_details
        /\ current_intent' = st.current_intent
        /\ error' = st.error
        /\ calendar_availabilities' = st.calendar_availabilities
        /\ surf_forecasts' = st.surf_forecasts
        /\ train_options' = st.train_options
        /\ pc' = IF next.ok THEN next.val ELSE "RAISED"
        /\ exc' = IF next.ok THEN "" ELSE next.exc
        /\ update' = IF res.ok THEN res.val ELSE EmptyObject
        /\ last' = node
        /\ trace' = Append(trace, node)
        /\ UNCHANGED <<arg, ret>>

RouteIntent ==
    /\ pc = "route_intent"
    /\ \E text \in RouterResponses :
          /\ Commit("route_intent", NodeRouteIntent(State, text), "")
          /\ response' = Str(text)
    /\ invoked' = << >>
    /\ judged' = None
    /\ UNCHANGED calls

UpdateTripDetails ==
    /\ pc = "update_trip_details"
    /\ \E text \in UpdateResponses :
          /\ Commit("update_trip_details", NodeUpdateTripDetails(State, text), "")
          /\ response' = Str(text)
    /\ invoked' = << >>
    /\ judged' = None
    /\ UNCHANGED calls

ChatWithUser ==
    /\ pc = "chat_with_user"
    /\ \E text \in ReplyTexts :
          /\ Commit("chat_with_user", NodeChatWithUser(State, text), "")
          /\ response' = Str(text)
    /\ invoked' = << >>
    /\ judged' = None
    /\ UNCHANGED calls

RequestMissingDetails ==
    /\ pc = "request_missing_details"
    /\ \E text \in ReplyTexts :
          /\ Commit("request_missing_details", NodeRequestMissingDetails(State, text), "")
          /\ response' = Str(text)
    /\ invoked' = << >>
    /\ judged' = None
    /\ UNCHANGED calls

CheckSurfForecast ==
    /\ pc = "check_surf_forecast"
    /\ \E env \in EnvsFor("get_surf_forecast"), answer \in JudgeResponses :
          \E node \in { NodeCheckSurfForecast(State, ToolNames, env) } :
              /\ Commit("check_surf_forecast", node.result, answer)
              /\ invoked' = node.outs
              /\ judged' = IF pc' # "RAISED" /\ EdgeAfterForecast(State', answer).asked
                           THEN Str(answer) ELSE None
    /\ UNCHANGED calls
    /\ response' = None

InformUserOfBadSurf ==
    /\ pc = "inform_user_of_bad_surf"
    /\ \E text \in ReplyTexts :
          /\ Commit("inform_user_of_bad_surf", NodeInformUserOfBadSurf(State, text), "")
          /\ response' = Str(text)
    /\ invoked' = << >>
    /\ judged' = None
    /\ UNCHANGED calls

PlanTravelLogistics ==
    /\ pc = "plan_travel_logistics"
    /\ \E text \in ReplyTexts, batch \in Batches(MaxCalls - calls) :
          /\ Commit("plan_travel_logistics",
                    NodePlanTravelLogistics(State, AIMessage(<<text>>, ToolCallsOf(batch))), "")
          /\ response' = Str(text)
          /\ calls' = calls + Len(batch)
    /\ invoked' = << >>
    /\ judged' = None

ExecuteTools ==
    /\ pc = "execute_tools"
    /\ \E envs \in EnvSeqs(messages[Len(messages)].tool_calls) :
          \E node \in { NodeExecuteTools(State, ToolNames, envs) } :
              /\ Commit("execute_tools", node.result, "")
              /\ invoked' = node.outs
    /\ judged' = None
    /\ response' = None
    /\ UNCHANGED calls

HandleError ==
    /\ pc = "handle_error"
    /\ Commit("handle_error", NodeHandleError(State), "")
    /\ invoked' = << >>
    /\ judged' = None
    /\ response' = None
    /\ UNCHANGED calls

SummarizePlan ==
    /\ pc = "summarize_plan"
    /\ \E text \in ReplyTexts :
          /\ Commit("summarize_plan", NodeSummarizePlan(State, text), "")
          /\ response' = Str(text)
    /\ invoked' = << >>
    /\ judged' = None
    /\ UNCHANGED calls

Next ==
    \/ RouteIntent
    \/ UpdateTripDetails
    \/ ChatWithUser
    \/ RequestMissingDetails
    \/ CheckSurfForecast
    \/ InformUserOfBadSurf
    \/ PlanTravelLogistics
    \/ ExecuteTools
    \/ HandleError
    \/ SummarizePlan

Spec == Init /\ [][Next]_vars

(* ------------------------- helpers on their own ------------------------ *)
\* the state of the graph while a helper is called outside a run
NoRun ==
    /\ messages = << >>
    /\ trip_details = EmptyObject
    /\ current_intent = None
    /\ error = None
    /\ calendar_availabilities = << >>
    /\ surf_forecasts = << >>
    /\ train_options = << >>
    /\ pc = "NONE"
    /\ last = "START"
    /\ update = EmptyObject
    /\ exc = ""
    /\ judged = None
    /\ invoked = << >>
    /\ response = None
    /\ calls = 0
    /\ trace = << >>

runvars == <<messages, trip_details, current_intent, error,
             calendar_availabilities, surf_forecasts, train_options,
             pc, last, update, exc, judged, invoked, response, calls, trace>>

\* get_weekend_dates called with each reference date
InitWeekend ==
    /\ NoRun
    /\ arg \in { Date(739494 + i) : i \in 1..MaxDays }
    /\ ret = None

ApplyGetWeekendDates ==
    /\ ret = None
    /\ ret' = List(GetWeekendDates(arg))
    /\ UNCHANGED <<arg, runvars>>

NextWeekend == ApplyGetWeekendDates

SpecWeekend == InitWeekend /\ [][NextWeekend]_vars

\* the kinds of message a list can hold: of the user, of the assistant
\* without and with a pending tool call, of a tool
MessageKinds ==
    { HumanMessage(<<"I want to surf in Bayonne.">>),
      AIMessage(<<"Sure.">>, << >>),
      AIMessage(<<"Sure.">>, <<[id |-> "call_1", name |-> "check_calendar",
                                args |-> CalendarArgs]>>),
      ToolMessage(<<"[", "]">>, "call_1") }

\* split_chat_and_scratchpad called with each message list
InitSplit ==
    /\ NoRun
    /\ arg \in { List(msgs) : msgs \in UNION { [1..n -> MessageKinds] : n \in 0..MaxMsgs } }
    /\ ret = None

ApplySplitChatAndScratchpad ==
    /\ ret = None
    /\ ret' = List(SplitChatAndScratchpad(arg.items))
    /\ UNCHANGED <<arg, runvars>>

NextSplit == ApplySplitChatAndScratchpad

SpecSplit == InitSplit /\ [][NextSplit]_vars

\* the texts parse_llm_json_response is called with: a body (a JSON object
\* text, a broken one, or plain prose) between a prefix and a suffix (nothing,
\* a markdown fence, prose and a fence, prose that itself holds braces); each
\* triple is mapped to the text it concatenates to
Wrapped ==
       (<<"", "{\"intent\": \"chat\"}", "">> :> "{\"intent\": \"chat\"}")
    @@ (<<"", "{\"intent\": \"chat\"}", "\n~~~\nDone.">> :> "{\"intent\": \"chat\"}\n~~~\nDone.")
    @@ (<<"", "{\"intent\": \"chat\"}", " (see {docs})">> :> "{\"intent\": \"chat\"} (see {docs})")
    @@ (<<"", "{}", "">> :> "{}")
    @@ (<<"", "{}", "\n~~~\nDone.">> :> "{}\n~~~\nDone.")
    @@ (<<"", "{}", " (see {docs})">> :> "{} (see {docs})")
    @@ (<<"", "{\"return_date\": null}", "">> :> "{\"return_date\": null}")
    @@ (<<"", "{\"return_date\": null}", "\n~~~\nDone.">> :> "{\"return_date\": null}\n~~~\nDone.")
    @@ (<<"", "{\"return_date\": null}", " (see {docs})">> :> "{\"return_date\": null} (see {docs})")
    @@ (<<"", "{\"intent\": }", "">> :> "{\"intent\": }")
    @@ (<<"", "{\"intent\": }", "\n~~~\nDone.">> :> "{\"intent\": }\n~~~\nDone.")
    @@ (<<"", "{\"intent\": }", " (see {docs})">> :> "{\"intent\": } (see {docs})")
    @@ (<<"", "I am not sure.", "">> :> "I am not sure.")
    @@ (<<"", "I am not sure.", "\n~~~\nDone.">> :> "I am not sure.\n~~~\nDone.")
    @@ (<<"", "I am not sure.", " (see {docs})">> :> "I am not sure. (see {docs})")
    @@ (<<"", "{\"intent\": \"chat\"", "">> :> "{\"intent\": \"chat\"")
    @@ (<<"", "{\"intent\": \"chat\"", "\n~~~\nDone.">> :> "{\"intent\": \"chat\"\n~~~\nDone.")
    @@ (<<"", "{\"intent\": \"chat\"", " (see {docs})">> :> "{\"intent\": \"chat\" (see {docs})")
    @@ (<<"", "\"intent\": \"chat\"}", "">> :> "\"intent\": \"chat\"}")
    @@ (<<"", "\"intent\": \"chat\"}", "\n~~~\nDone.">> :> "\"intent\": \"chat\"}\n~~~\nDone.")
    @@ (<<"", "\"intent\": \"chat\"}", " (see {docs})">> :> "\"intent\": \"chat\"} (see {docs})")
    @@ (<<"~~~json\n", "{\"intent\": \"chat\"}", "">> :> "~~~json\n{\"intent\": \"chat\"}")
    @@ (<<"~~~json\n", "{\"intent\": \"chat\"}", "\n~~~\nDone.">> :> "~~~json\n{\"intent\": \"chat\"}\n~~~\nDone.")
    @@ (<<"~~~json\n", "{\"intent\": \"chat\"}", " (see {docs})">> :> "~~~json\n{\"intent\": \"chat\"} (see {docs})")
    @@ (<<"~~~json\n", "{}", "">> :> "~~~json\n{}")
    @@ (<<"~~~json\n", "{}", "\n~~~\nDone.">> :> "~~~json\n{}\n~~~\nDone.")
    @@ (<<"~~~json\n", "{}", " (see {docs})">> :> "~~~json\n{} (see {docs})")
    @@ (<<"~~~json\n", "{\"return_date\": null}", "">> :> "~~~json\n{\"return_date\": null}")
    @@ (<<"~~~json\n", "{\"return_date\": null}", "\n~~~\nDone.">> :> "~~~json\n{\"return_date\": null}\n~~~\nDone.")
    @@ (<<"~~~json\n", "{\"return_date\": null}", " (see {docs})">> :> "~~~json\n{\"return_date\": null} (see {docs})")
    @@ (<<"~~~json\n", "{\"intent\": }", "">> :> "~~~json\n{\"intent\": }")
    @@ (<<"~~~json\n", "{\"intent\": }", "\n~~~\nDone.">> :> "~~~json\n{\"intent\": }\n~~~\nDone.")
    @@ (<<"~~~json\n", "{\"intent\": }", " (see {docs})">> :> "~~~json\n{\"intent\": } (see {docs})")
    @@ (<<"~~~json\n", "I am not sure.", "">> :> "~~~json\nI am not sure.")
    @@ (<<"~~~json\n", "I am not sure.", "\n~~~\nDone.">> :> "~~~json\nI am not sure.\n~~~\nDone.")
    @@ (<<"~~~json\n", "I am not sure.", " (see {docs})">> :> "~~~json\nI am not sure. (see {docs})")
    @@ (<<"~~~json\n", "{\"intent\": \"chat\"", "">> :> "~~~json\n{\"intent\": \"chat\"")
    @@ (<<"~~~json\n", "{\"intent\": \"chat\"", "\n~~~\nDone.">> :> "~~~json\n{\"intent\": \"chat\"\n~~~\nDone.")
    @@ (<<"~~~json\n", "{\"intent\": \"chat\"", " (see {docs})">> :> "~~~json\n{\"intent\": \"chat\" (see {docs})")
    @@ (<<"~~~json\n", "\"intent\": \"chat\"}", "">> :> "~~~json\n\"intent\": \"chat\"}")
    @@ (<<"~~~json\n", "\"intent\": \"chat\"}", "\n~~~\nDone.">> :> "~~~json\n\"intent\": \"chat\"}\n~~~\nDone.")
    @@ (<<"~~~json\n", "\"intent\": \"chat\"}", " (see {docs})">> :> "~~~json\n\"intent\": \"chat\"} (see {docs})")
    @@ (<<"Here you go:\n~~~json\n", "{\"intent\": \"chat\"}", "">> :> "Here you go:\n~~~json\n{\"intent\": \"chat\"}")
    @@ (<<"Here you go:\n~~~json\n", "{\"intent\": \"chat\"}", "\n~~~\nDone.">> :> "Here you go:\n~~~json\n{\"intent\": \"chat\"}\n~~~\nDone.")
    @@ (<<"Here you go:\n~~~json\n", "{\"intent\": \"chat\"}", " (see {docs})">> :> "Here you go:\n~~~json\n{\"intent\": \"chat\"} (see {docs})")
    @@ (<<"Here you go:\n~~~json\n", "{}", "">> :> "Here you go:\n~~~json\n{}")
    @@ (<<"Here you go:\n~~~json\n", "{}", "\n~~~\nDone.">> :> "Here you go:\n~~~json\n{}\n~~~\nDone.")
    @@ (<<"Here you go:\n~~~json\n", "{}", " (see {docs})">> :> "Here you go:\n~~~json\n{} (see {docs})")
    @@ (<<"Here you go:\n~~~json\n", "{\"return_date\": null}", "">> :> "Here you go:\n~~~json\n{\"return_date\": null}")
    @@ (<<"Here you go:\n~~~json\n", "{\"return_date\": null}", "\n~~~\nDone.">> :> "Here you go:\n~~~json\n{\"return_date\": null}\n~~~\nDone.")
    @@ (<<"Here you go:\n~~~json\n", "{\"return_date\": null}", " (see {docs})">> :> "Here you go:\n~~~json\n{\"return_date\": null} (see {docs})")
    @@ (<<"Here you go:\n~~~json\n", "{\"intent\": }", "">> :> "Here you go:\n~~~json\n{\"intent\": }")
    @@ (<<"Here you go:\n~~~json\n", "{\"intent\": }", "\n~~~\nDone.">> :> "Here you go:\n~~~json\n{\"intent\": }\n~~~\nDone.")
    @@ (<<"Here you go:\n~~~json\n", "{\"intent\": }", " (see {docs})">> :> "Here you go:\n~~~json\n{\"intent\": } (see {docs})")
    @@ (<<"Here you go:\n~~~json\n", "I am not sure.", "">> :> "Here you go:\n~~~json\nI am not sure.")
    @@ (<<"Here you go:\n~~~json\n", "I am not sure.", "\n~~~\nDone.">> :> "Here you go:\n~~~json\nI am not sure.\n~~~\nDone.")
    @@ (<<"Here you go:\n~~~json\n", "I am not sure.", " (see {docs})">> :> "Here you go:\n~~~json\nI am not sure. (see {docs})")
    @@ (<<"Here you go:\n~~~json\n", "{\"intent\": \"chat\"", "">> :> "Here you go:\n~~~json\n{\"intent\": \"chat\"")
    @@ (<<"Here you go:\n~~~json\n", "{\"intent\": \"chat\"", "\n~~~\nDone.">> :> "Here you go:\n~~~json\n{\"intent\": \"chat\"\n~~~\nDone.")
    @@ (<<"Here you go:\n~~~json\n", "{\"intent\": \"chat\"", " (see {docs})">> :> "Here you go:\n~~~json\n{\"intent\": \"chat\" (see {docs})")
    @@ (<<"Here you go:\n~~~json\n", "\"intent\": \"chat\"}", "">> :> "Here you go:\n~~~json\n\"intent\": \"chat\"}")
    @@ (<<"Here you go:\n~~~json\n", "\"intent\": \"chat\"}", "\n~~~\nDone.">> :> "Here you go:\n~~~json\n\"intent\": \"chat\"}\n~~~\nDone.")
    @@ (<<"Here you go:\n~~~json\n", "\"intent\": \"chat\"}", " (see {docs})">> :> "Here you go:\n~~~json\n\"intent\": \"chat\"} (see {docs})")
    @@ (<<"Set {intent}: ", "{\"intent\": \"chat\"}", "">> :> "Set {intent}: {\"intent\": \"chat\"}")
    @@ (<<"Set {intent}: ", "{\"intent\": \"chat\"}", "\n~~~\nDone.">> :> "Set {intent}: {\"intent\": \"chat\"}\n~~~\nDone.")
    @@ (<<"Set {intent}: ", "{\"intent\": \"chat\"}", " (see {docs})">> :> "Set {intent}: {\"intent\": \"chat\"} (see {docs})")
    @@ (<<"Set {intent}: ", "{}", "">> :> "Set {intent}: {}")
    @@ (<<"Set {intent}: ", "{}", "\n~~~\nDone.">> :> "Set {intent}: {}\n~~~\nDone.")
    @@ (<<"Set {intent}: ", "{}", " (see {docs})">> :> "Set {intent}: {} (see {docs})")
    @@ (<<"Set {intent}: ", "{\"return_date\": null}", "">> :> "Set {intent}: {\"return_date\": null}")
    @@ (<<"Set {intent}: ", "{\"return_date\": null}", "\n~~~\nDone.">> :> "Set {intent}: {\"return_date\": null}\n~~~\nDone.")
    @@ (<<"Set {intent}: ", "{\"return_date\": null}", " (see {docs})">> :> "Set {intent}: {\"return_date\": null} (see {docs})")
    @@ (<<"Set {intent}: ", "{\"intent\": }", "">> :> "Set {intent}: {\"intent\": }")
    @@ (<<"Set {intent}: ", "{\"intent\": }", "\n~~~\nDone.">> :> "Set {intent}: {\"intent\": }\n~~~\nDone.")
    @@ (<<"Set {intent}: ", "{\"intent\": }", " (see {docs})">> :> "Set {intent}: {\"intent\": } (see {docs})")
    @@ (<<"Set {intent}: ", "I am not sure.", "">> :> "Set {intent}: I am not sure.")
    @@ (<<"Set {intent}: ", "I am not sure.", "\n~~~\nDone.">> :> "Set {intent}: I am not sure.\n~~~\nDone.")
    @@ (<<"Set {intent}: ", "I am not sure.", " (see {docs})">> :> "Set {intent}: I am not sure. (see {docs})")
    @@ (<<"Set {intent}: ", "{\"intent\": \"chat\"", "">> :> "Set {intent}: {\"intent\": \"chat\"")
    @@ (<<"Set {intent}: ", "{\"intent\": \"chat\"", "\n~~~\nDone.">> :> "Set {intent}: {\"intent\": \"chat\"\n~~~\nDone.")
    @@ (<<"Set {intent}: ", "{\"intent\": \"chat\"", " (see {docs})">> :> "Set {intent}: {\"intent\": \"chat\" (see {docs})")
    @@ (<<"Set {intent}: ", "\"intent\": \"chat\"}", "">> :> "Set {intent}: \"intent\": \"chat\"}")
    @@ (<<"Set {intent}: ", "\"intent\": \"chat\"}", "\n~~~\nDone.">> :> "Set {intent}: \"intent\": \"chat\"}\n~~~\nDone.")
    @@ (<<"Set {intent}: ", "\"intent\": \"chat\"}", " (see {docs})">> :> "Set {intent}: \"intent\": \"chat\"} (see {docs})")

\* parse_llm_json_response called with each text
InitParse ==
    /\ NoRun
    /\ arg \in { [t |-> "wrapped", prefix |-> w[1], body |-> w[2], suffix |-> w[3]] :
                  w \in DOMAIN Wrapped }
    /\ ret = None

ApplyParseLlmJsonResponse ==
    /\ ret = None
    /\ ret' = Ok(ParseLlmJsonResponse(Wrapped[<<arg.prefix, arg.body, arg.suffix>>]))
    /\ UNCHANGED <<arg, runvars>>

NextParse == ApplyParseLlmJsonResponse

SpecParse == InitParse /\ [][NextParse]_vars

(* ------------------------- auxiliary predicates ------------------------ *)
IsPrefix(a, b) == Len(a) <= Len(b) /\ SubSeq(b, 1, Len(a)) = a

\* "error" occurs in the text, in any case
MentionsError(s) == Contains(Lower(Chars(s)), Chars("error"))

\* the tool call failed: the tool raised, or answered an error text
CallFailed(o) == ~o.out.ok \/ (o.out.val.t = "str" /\ MentionsError(o.out.val.s))

\* the key is in the trip details with a value other than None and ""
Present(key) ==
    /\ key \in DOMAIN trip_details
    /\ trip_details[key] # None
    /\ trip_details[key] # Str("")

\* the value trip_details holds for a value of a parsed update object: an ISO
\* text of a date field is held as the date it denotes
Stored(key, v) ==
    IF key \in {"departure_date", "return_date"} /\ v.t = "str"
    THEN Date(IsoDates[v.s])
    ELSE v

\* the number of times the node has run
Runs(node) == Cardinality({i \in 1..Len(trace) : trace[i] = node})

\* every response of the planner so far carried at least one tool call
PlannerAlwaysCalls ==
    Cardinality({i \in 1..Len(messages) : messages[i].tool_calls # << >>})
        = Runs("plan_travel_logistics")

\* the records the calls of the tool returned, concatenated in call order
RECURSIVE OutputsOf(_, _)
OutputsOf(outs, tool_name) ==
    IF outs = << >> THEN << >>
    ELSE (IF Head(outs).name = tool_name /\ Head(outs).out.ok /\ Head(outs).out.val.t = "list"
          THEN Head(outs).out.val.items
          ELSE << >>) \o OutputsOf(Tail(outs), tool_name)

\* the message belongs to the scratchpad: a tool message, or an assistant
\* message with pending tool calls
IsScratch(m) == m.type = "tool" \/ (m.type = "ai" /\ m.tool_calls # << >>)

\* the text holds the character
HasChar(s, c) == \E i \in 1..Len(Chars(s)) : Chars(s)[i] = c

\* the text holds a brace
HasBrace(s) == HasChar(s, "{") \/ HasChar(s, "}")

\* the text is a JSON object on its own
IsObjectText(s) == JsonLoads(Chars(s)).ok

\* the number of tool calls of the requests that were answered: an assistant
\* message with tool calls that a tool message follows
RECURSIVE AnsweredCalls(_)
AnsweredCalls(msgs) ==
    IF Len(msgs) < 2 THEN 0
    ELSE (IF msgs[1].tool_calls # << >> /\ msgs[2].type = "tool"
          THEN Len(msgs[1].tool_calls) ELSE 0) + AnsweredCalls(Tail(msgs))

\* the number of terminal nodes that have run
TerminalRuns == Cardinality({i \in 1..Len(trace) : trace[i] \in TerminalNodes})

\* the text parse_llm_json_response was called with
WrappedText == Wrapped[<<arg.prefix, arg.body, arg.suffix>>]

\* the accumulator has grown by the records of one call of the tool made in
\* the step, when the step made such a call
AppendedBy(tool_name, old, new) ==
    (\E i \in 1..Len(invoked') : invoked'[i].name = tool_name)
        => \E i \in 1..Len(invoked') :
              /\ invoked'[i].name = tool_name
              /\ invoked'[i].out.ok
              /\ invoked'[i].out.val.t = "list"
              /\ new = old \o invoked'[i].out.val.items

(* -------------------------------- claims ------------------------------- *)
\* C1: after route_intent the router edge selects update_trip_details for
\* the intent update_details, chat_with_user for chat and handle_error for
\* error, for an absent intent and for every other value; the run never
\* fails to select a next node.
C1_RouterAlwaysSelects ==
    last = "route_intent" =>
        pc = IF current_intent = Str("update_details") THEN "update_trip_details"
             ELSE IF current_intent = Str("chat") THEN "chat_with_user"
             ELSE "handle_error"

\* C2: when a call of the pending batch fails (the tool raises or answers an
\* error text), execute_tools makes no later call of the batch and its update
\* holds only the error field, so messages and the three accumulators are
\* what they were before the node, also when earlier calls succeeded.
C2_FailFastBatch ==
    [][ (pc = "execute_tools" /\ \E i \in 1..Len(invoked') : CallFailed(invoked'[i]))
        => /\ \A i \in 1..Len(invoked') : CallFailed(invoked'[i]) <=> i = Len(invoked')
           /\ DOMAIN update' = {"error"}
           /\ Truthy(error')
           /\ messages' = messages
           /\ calendar_availabilities' = calendar_availabilities
           /\ surf_forecasts' = surf_forecasts
           /\ train_options' = train_options ]_vars

\* C2 witness: a batch of two calls, the first succeeded, the second failed
C2_Witness ==
    /\ last = "execute_tools"
    /\ Len(messages[Len(messages)].tool_calls) = 2
    /\ Len(invoked) = 2
    /\ ~CallFailed(invoked[1])
    /\ CallFailed(invoked[2])
    /\ pc = "handle_error"

\* C3: if the error field is set when the run ends, the terminal node that
\* ran is handle_error.
C3_ErrorsEndInHandleError ==
    (pc = "END" /\ Truthy(error)) => last = "handle_error"

\* C4: every result of a tool that is not a list of records is a text that
\* mentions "error", and the three accumulators only ever receive lists of
\* records: no run ends in the merge of a text into an accumulator.
C4_ToolContract ==
    /\ \A i \in 1..Len(invoked) :
          invoked[i].out.ok =>
              \/ invoked[i].out.val.t = "list"
              \/ MentionsError(invoked[i].out.val.s)
    /\ exc # "TypeError"

\* C5: each accumulator after a node has the list before it as a prefix.
C5_AccumulatorsOnlyGrow ==
    [][ /\ IsPrefix(calendar_availabilities, calendar_availabilities')
        /\ IsPrefix(surf_forecasts, surf_forecasts')
        /\ IsPrefix(train_options, train_options') ]_vars

\* C5 witness: execute_tools appended to the forecasts check_surf_forecast
\* stored, and the two other accumulators hold records too
C5_Witness ==
    /\ last = "execute_tools"
    /\ Len(surf_forecasts) = 3
    /\ calendar_availabilities # << >>
    /\ train_options # << >>

\* C6: the message list after a node has the list before it as a prefix.
C6_MessagesAppendOnly ==
    [][ IsPrefix(messages, messages') ]_vars

\* C6 witness: a batch of two tool calls was answered by two tool messages
\* after the planner message
C6_Witness ==
    /\ last = "execute_tools"
    /\ Len(messages) >= 4
    /\ messages[Len(messages)].type = "tool"
    /\ messages[Len(messages) - 1].type = "tool"
    /\ messages[Len(messages) - 2].tool_calls # << >>

\* C7: after update_trip_details parsed an update object, each key that is
\* not in the object keeps its value, each key that is in the object has the
\* value of the object, and no other key exists.
C7_TripDetailsMerge ==
    [][ (pc = "update_trip_details" /\ pc' # "RAISED"
            /\ ParseLlmJsonResponse(response'.s).t = "dict")
        => LET parsed_info == ParseLlmJsonResponse(response'.s).d
           IN  /\ DOMAIN trip_details' = DOMAIN trip_details \cup DOMAIN parsed_info
               /\ \A k \in DOMAIN trip_details \ DOMAIN parsed_info :
                     trip_details'[k] = trip_details[k]
               /\ \A k \in DOMAIN parsed_info :
                     trip_details'[k] = Stored(k, parsed_info[k]) ]_vars

\* C7 witness: the update object overwrote departure_city and added
\* departure_date, return_date was kept
C7_Witness ==
    /\ last = "update_trip_details"
    /\ DOMAIN trip_details = {"departure_city", "departure_date", "return_date"}
    /\ trip_details["departure_city"] = Str("Lyon")
    /\ trip_details["departure_date"] = Date(739501)
    /\ trip_details["return_date"] = Date(739501)

\* C8: after check_surf_forecast, when surf_forecasts is empty or error is
\* set, the next node is inform_user_of_bad_surf and the routing function
\* did not ask the model.
C8_ForecastGating ==
    (last = "check_surf_forecast" /\ pc # "RAISED"
        /\ (surf_forecasts = << >> \/ Truthy(error)))
    => (pc = "inform_user_of_bad_surf" /\ judged = None)

\* C8 witness: the forecast tool answered an error text
C8_Witness ==
    /\ last = "check_surf_forecast"
    /\ invoked # << >>
    /\ Truthy(error)
    /\ surf_forecasts = << >>
    /\ pc = "inform_user_of_bad_surf"

\* C9: after check_surf_forecast with forecasts and without error, the next
\* node is plan_travel_logistics iff the judgment text contains "yes" in any
\* case, inform_user_of_bad_surf otherwise; plan_travel_logistics is entered
\* only on such a judgment or from execute_tools.
C9_YesJudgmentGatesPlanning ==
    [][ /\ (pc = "check_surf_forecast" /\ pc' # "RAISED"
              /\ surf_forecasts' # << >> /\ ~Truthy(error'))
           => /\ judged' # None
              /\ pc' \in {"plan_travel_logistics", "inform_user_of_bad_surf"}
              /\ pc' = "plan_travel_logistics"
                    <=> Contains(Lower(Chars(judged'.s)), Chars("yes"))
        /\ (pc' = "plan_travel_logistics")
           => \/ pc = "execute_tools"
              \/ /\ pc = "check_surf_forecast"
                 /\ judged' # None
                 /\ Contains(Lower(Chars(judged'.s)), Chars("yes")) ]_vars

\* C9 witness: a judgment that holds "yes" inside a word and in upper case
\* led to planning
C9_Witness ==
    /\ last = "check_surf_forecast"
    /\ judged \in {Str("Yes."), Str("Not in my eyes.")}
    /\ pc = "plan_travel_logistics"

\* C10: after update_trip_details the next node is check_surf_forecast if
\* departure_city, destination_city and departure_date are all present and
\* not empty, request_missing_details in every other case.
C10_UpdateRouting ==
    (last = "update_trip_details" /\ pc # "RAISED")
    => pc = IF Present("departure_city") /\ Present("destination_city")
               /\ Present("departure_date")
            THEN "check_surf_forecast"
            ELSE "request_missing_details"

\* C10 witness: all five fields are set and the forecast check is next
C10_Witness ==
    /\ last = "update_trip_details"
    /\ Present("departure_city") /\ Present("destination_city")
    /\ Present("departure_date") /\ Present("return_date")
    /\ pc = "check_surf_forecast"

\* C11: a step of plan_travel_logistics that hands control on goes to
\* execute_tools iff the last message carries at least one tool call, to
\* summarize_plan otherwise; a step of execute_tools that hands control on
\* goes to handle_error iff error is set, to plan_travel_logistics otherwise.
C11_PlanningLoopProtocol ==
    [][ /\ (pc = "plan_travel_logistics" /\ pc' # "RAISED")
           => pc' = IF messages'[Len(messages')].tool_calls # << >>
                    THEN "execute_tools"
                    ELSE "summarize_plan"
        /\ (pc = "execute_tools" /\ pc' # "RAISED")
           => pc' = IF error' # None THEN "handle_error" ELSE "plan_travel_logistics" ]_vars

\* C11 witness: the planner ran, its calls were executed without error, the
\* planner ran again and answered without tool calls
C11_Witness ==
    /\ Len(trace) >= 3
    /\ trace[Len(trace) - 2] = "plan_travel_logistics"
    /\ trace[Len(trace) - 1] = "execute_tools"
    /\ last = "plan_travel_logistics"
    /\ error = None
    /\ messages[Len(messages)].tool_calls = << >>
    /\ pc = "summarize_plan"

\* C12: the first node of every run is route_intent; a run that has ended
\* (the graph reached END) ran exactly one node of TerminalNodes, as its last
\* node; a terminal node is followed by no node, and END is reached after no
\* other node.
C12_EntryAndTerminalNodes ==
    /\ IF trace = << >> THEN pc = "route_intent" ELSE trace[1] = "route_intent"
    /\ pc = "END" =>
          /\ last \in TerminalNodes
          /\ Cardinality({i \in 1..Len(trace) : trace[i] \in TerminalNodes}) = 1
    /\ \A i \in 1..Len(trace) :
          trace[i] \in TerminalNodes => (i = Len(trace) /\ pc = "END")

\* C12 witness: a run through the planning loop ended after summarize_plan
C12_Witness ==
    /\ pc = "END"
    /\ last = "summarize_plan"
    /\ trace[1] = "route_intent"
    /\ \E i \in 1..Len(trace) : trace[i] = "execute_tools"

\* C13: a node that runs twice in a run is plan_travel_logistics or
\* execute_tools, and between two runs of the same node only these two nodes
\* run, in alternation.
C13_OneCycle ==
    \A i \in 1..Len(trace) : \A j \in (i + 1)..Len(trace) :
        trace[i] = trace[j] =>
            \A k \in i..(j - 1) :
                \/ trace[k] = "plan_travel_logistics" /\ trace[k + 1] = "execute_tools"
                \/ trace[k] = "execute_tools" /\ trace[k + 1] = "plan_travel_logistics"

\* C13 witness: the planner ran three times, execute_tools between its runs
C13_Witness ==
    /\ Cardinality({i \in 1..Len(trace) : trace[i] = "plan_travel_logistics"}) >= 3
    /\ Cardinality({i \in 1..Len(trace) : trace[i] = "execute_tools"}) >= 2
    /\ last = "plan_travel_logistics"

\* C14: a run stops only at END, after a terminal node, never between two
\* nodes; and at most four of the nodes it ran are outside the planning loop.
C14_RunsStopAtTerminalNode ==
    /\ pc # "RAISED"
    /\ Cardinality({i \in 1..Len(trace) :
                       trace[i] \notin {"plan_travel_logistics", "execute_tools"}}) <= 4

\* C15: once the planner has run, as long as each of its responses carried
\* a tool call and no tool call failed (no error is set, no exception was
\* raised), the run is in the planning loop: the next node is
\* plan_travel_logistics or execute_tools, whatever the number of iterations,
\* and no terminal node has run.
C15_LoopIsNotBounded ==
    (/\ Runs("plan_travel_logistics") >= 1
     /\ PlannerAlwaysCalls
     /\ error = None
     /\ exc = "")
    => /\ pc = IF last = "plan_travel_logistics"
               THEN "execute_tools"
               ELSE "plan_travel_logistics"
       /\ \A i \in 1..Len(trace) : trace[i] \notin TerminalNodes

\* C15 witness: three iterations of the loop, each with a tool call that
\* succeeded, and the planner is next again
C15_Witness ==
    /\ Runs("plan_travel_logistics") = 3
    /\ Runs("execute_tools") = 3
    /\ PlannerAlwaysCalls
    /\ error = None
    /\ pc = "plan_travel_logistics"

\* C16: after a batch of execute_tools in which every call succeeded, each
\* accumulator is the list before the batch followed by the outputs, in call
\* order, of all the calls of the batch that name its tool, and by nothing
\* else.
C16_OutputsReachAccumulators ==
    [][ (pc = "execute_tools" /\ pc' = "plan_travel_logistics")
        => /\ surf_forecasts' = surf_forecasts \o OutputsOf(invoked', "get_surf_forecast")
           /\ calendar_availabilities'
                 = calendar_availabilities \o OutputsOf(invoked', "check_calendar")
           /\ train_options' = train_options \o OutputsOf(invoked', "find_train_tickets") ]_vars

\* C17: after a batch of execute_tools in which every call succeeded, the
\* message list is the list before the batch followed by one tool message per
\* pending call of the last assistant message, in call order, each with the
\* tool_call_id of its call, and by no other message.
C17_OneToolMessagePerCall ==
    [][ (pc = "execute_tools" /\ pc' = "plan_travel_logistics")
        => LET tool_calls == messages[Len(messages)].tool_calls
           IN  /\ Len(messages') = Len(messages) + Len(tool_calls)
               /\ SubSeq(messages', 1, Len(messages)) = messages
               /\ \A i \in 1..Len(tool_calls) :
                     /\ messages'[Len(messages) + i].type = "tool"
                     /\ messages'[Len(messages) + i].tool_call_id = tool_calls[i].id ]_vars

\* C17 witness: three pending calls were answered by three tool messages
C17_Witness ==
    /\ last = "execute_tools"
    /\ pc = "plan_travel_logistics"
    /\ Len(messages) >= 4
    /\ Len(messages[Len(messages) - 3].tool_calls) = 3
    /\ messages[Len(messages) - 2].tool_call_id = "call_1"
    /\ messages[Len(messages) - 1].tool_call_id = "call_2"
    /\ messages[Len(messages)].tool_call_id = "call_3"

\* C18: whatever text the model answers, route_intent returns an update
\* that holds current_intent and nothing else; if no JSON object can be
\* extracted from the text, or the object has no intent key, current_intent
\* becomes "error" and the next node is handle_error.
C18_RouteIntentNeverRaises ==
    [][ pc = "route_intent"
        => /\ DOMAIN update' = {"current_intent"}
           /\ current_intent' = update'["current_intent"]
           /\ LET intent_json == ParseLlmJsonResponse(response'.s)
              IN  (intent_json.t # "dict" \/ "intent" \notin DOMAIN intent_json.d)
                  => (current_intent' = Str("error") /\ pc' = "handle_error") ]_vars

\* C18 witness: a text without an object, or an object without the key, led
\* to handle_error
C18_Witness ==
    /\ last = "route_intent"
    /\ response \in {Str("I am not sure."), Str("{\"action\": \"chat\"}"),
                     Str("{\"intent\": }")}
    /\ current_intent = Str("error")
    /\ pc = "handle_error"

\* C19: when no JSON object can be parsed from the text the model answers,
\* update_trip_details returns an empty update without raising, no field of
\* the state changes (error stays unset, trip_details is kept), and the next
\* node is chosen from the trip details the state already held.
C19_NoOpOnUncertainty ==
    [][ (pc = "update_trip_details" /\ ParseLlmJsonResponse(response'.s).t # "dict")
        => /\ update' = EmptyObject
           /\ exc' = ""
           /\ UNCHANGED statevars
           /\ pc' = IF Present("departure_city") /\ Present("destination_city")
                        /\ Present("departure_date")
                     THEN "check_surf_forecast"
                     ELSE "request_missing_details" ]_vars

\* C19 witness: the model answered without an object; the trip details of
\* the start of the run are still there and the user is asked for the rest
C19_Witness ==
    /\ last = "update_trip_details"
    /\ response = Str("Sorry, no details.")
    /\ update = EmptyObject
    /\ error = None
    /\ trip_details = ("departure_city" :> Str("Paris")) @@ ("return_date" :> Date(739501))
    /\ pc = "request_missing_details"

\* C20: update_trip_details never raises: whatever text the model answers,
\* an object whose departure_date or return_date is a text that is not an ISO
\* date included, the node returns an update and the run goes on to the
\* routing decision after it.
C20_UpdateNeverRaises ==
    last = "update_trip_details"
    => /\ exc = ""
       /\ pc \in {"check_surf_forecast", "request_missing_details"}

\* C22: for the reference date d with weekday index w, get_weekend_dates
\* returns (d + (5 - w), d + (6 - w)) when w < 5, (d, d + 1) when w = 5 and
\* (d - 1, d) when w = 6; the first date is a Saturday, the second the day
\* after it, and the Saturday lies between d - 1 and d + 5.
C22_WeekendWindow ==
    ret # None =>
        LET d == arg.ord
            w == Weekday(arg)
            saturday == ret.items[1]
            sunday == ret.items[2]
        IN  /\ w < 5 => (saturday = Date(d + (5 - w)) /\ sunday = Date(d + (6 - w)))
            /\ w = 5 => (saturday = arg /\ sunday = Date(d + 1))
            /\ w = 6 => (saturday = Date(d - 1) /\ sunday = arg)
            /\ Weekday(saturday) = 5
            /\ sunday.ord = saturday.ord + 1
            /\ d - 1 <= saturday.ord /\ saturday.ord <= d + 5

\* C22 witness: a Sunday was mapped to the day before it and itself
C22_Witness ==
    /\ ret # None
    /\ Weekday(arg) = 6
    /\ ret.items = <<Date(arg.ord - 1), arg>>

\* C21: handle_error does not raise; it appends exactly one assistant
\* message, without tool calls, whose text holds the recorded error text, or
\* "An unknown error occurred." when no error is recorded, and it changes no
\* other field of the state.
C21_HandleErrorNeverFails ==
    [][ pc = "handle_error"
        => /\ exc' = ""
           /\ Len(messages') = Len(messages) + 1
           /\ SubSeq(messages', 1, Len(messages)) = messages
           /\ LET m == messages'[Len(messages')]
              IN  /\ m.type = "ai"
                  /\ m.tool_calls = << >>
                  /\ \E i \in 1..Len(m.content) :
                        m.content[i] = IF error = None
                                       THEN "An unknown error occurred."
                                       ELSE error.s
           /\ UNCHANGED <<trip_details, current_intent, error,
                          calendar_availabilities, surf_forecasts, train_options>> ]_vars

\* C21 witness: handle_error ran after the router answered the intent error,
\* with no error recorded
C21_Witness ==
    /\ last = "handle_error"
    /\ current_intent = Str("error")
    /\ error = None
    /\ messages[Len(messages)].content[2] = "An unknown error occurred."

\* C23: split_chat_and_scratchpad returns two lists whose concatenation is
\* the list it was given; the second holds only tool messages and assistant
\* messages with pending tool calls and is the longest such end of the list
\* (the first list does not end with a message of that kind); the first is
\* not empty iff the list holds a message of another kind.
C23_ScratchpadSplit ==
    ret # None =>
        LET msgs == arg.items
            chat_history == ret.items[1]
            scratchpad == ret.items[2]
        IN  /\ chat_history \o scratchpad = msgs
            /\ \A i \in 1..Len(scratchpad) : IsScratch(scratchpad[i])
            /\ chat_history # << >> => ~IsScratch(chat_history[Len(chat_history)])
            /\ chat_history # << >> <=> \E i \in 1..Len(msgs) : ~IsScratch(msgs[i])

\* C23 witness: a scratch message before the last user message stays in the
\* chat history, the one after it is the scratchpad
C23_Witness ==
    /\ ret # None
    /\ Len(arg.items) = 3
    /\ IsScratch(arg.items[1]) /\ ~IsScratch(arg.items[2]) /\ IsScratch(arg.items[3])
    /\ Len(ret.items[1]) = 2
    /\ Len(ret.items[2]) = 1

\* C24 as stated: parse_llm_json_response returns None for every text with no
\* '{' or no '}', and for a JSON object wrapped in any fences and prose it
\* returns the object of the bare text
C24_AnyWrapping ==
    ret # None =>
        /\ (~HasChar(WrappedText, "{") \/ ~HasChar(WrappedText, "}")) => ret.val = None
        /\ IsObjectText(arg.body) => ret.val = Dict(JsonLoads(Chars(arg.body)).val)

\* C24, amended: parse_llm_json_response returns None for every text with no
\* '{' or no '}', and for a JSON object wrapped in fences and prose that hold
\* no brace it returns the object of the bare text
C24_TolerantExtraction ==
    ret # None =>
        /\ (~HasChar(WrappedText, "{") \/ ~HasChar(WrappedText, "}")) => ret.val = None
        /\ (IsObjectText(arg.body) /\ ~HasBrace(arg.prefix) /\ ~HasBrace(arg.suffix))
               => ret.val = Dict(JsonLoads(Chars(arg.body)).val)

\* an object between prose and fences has been extracted
C24_Witness ==
    /\ ret # None
    /\ arg.prefix = "Here you go:\n~~~json\n"
    /\ arg.body = "{\"intent\": \"chat\"}"
    /\ arg.suffix = "\n~~~\nDone."
    /\ ret.val = Dict([intent |-> Str("chat")])
    /\ Chars(WrappedText) = Chars(arg.prefix) \o Chars(arg.body) \o Chars(arg.suffix)

\* C27: no step removes or reorders a record of an accumulator; a step of
\* check_surf_forecast that succeeds appends the records of its forecast call
\* to surf_forecasts, and a batch of execute_tools that succeeds appends, for
\* each tool it called, the records of a call of that tool to the tool's
\* accumulator, whether or not the list already holds equal records.
C27_DuplicateAccumulation ==
    [][ /\ IsPrefix(surf_forecasts, surf_forecasts')
        /\ IsPrefix(calendar_availabilities, calendar_availabilities')
        /\ IsPrefix(train_options, train_options')
        /\ (pc = "check_surf_forecast" /\ pc' # "RAISED" /\ error' = None)
              => AppendedBy("get_surf_forecast", surf_forecasts, surf_forecasts')
        /\ (pc = "execute_tools" /\ pc' = "plan_travel_logistics")
              => /\ AppendedBy("get_surf_forecast", surf_forecasts, surf_forecasts')
                 /\ AppendedBy("check_calendar", calendar_availabilities,
                               calendar_availabilities')
                 /\ AppendedBy("find_train_tickets", train_options, train_options') ]_vars

\* C27 witness: after check_surf_forecast and a later batch that asked for
\* the same window, surf_forecasts holds the two days twice
C27_Witness ==
    /\ last = "execute_tools"
    /\ pc = "plan_travel_logistics"
    /\ Runs("check_surf_forecast") = 1
    /\ Runs("execute_tools") = 1
    /\ Len(surf_forecasts) = 4
    /\ surf_forecasts[1].date = Date(739500)
    /\ surf_forecasts[2].date = Date(739501)
    /\ surf_forecasts[3] = surf_forecasts[1]
    /\ surf_forecasts[4] = surf_forecasts[2]

\* C28: when update_trip_details runs with empty trip details and the intent
\* update_details, and the model answers the object with departure city
\* Paris, destination city Bayonne, departure date 2025-09-05 and return date
\* 2025-09-07, the trip details become these four fields with the two dates
\* as dates, and the next node is check_surf_forecast.
C28_ParisToBayonne ==
    [][ ( /\ pc = "update_trip_details"
          /\ trip_details = EmptyObject
          /\ current_intent = Str("update_details")
          /\ response' = Str("{\"departure_city\": \"Paris\", \"destination_city\": \"Bayonne\", \"departure_date\": \"2025-09-05\", \"return_date\": \"2025-09-07\"}") )
        => /\ trip_details' = [departure_city |-> Str("Paris"),
                               destination_city |-> Str("Bayonne"),
                               departure_date |-> Date(739499),
                               return_date |-> Date(739501)]
           /\ pc' = "check_surf_forecast" ]_vars

\* C28 witness: the four fields were stored by the first node after the
\* router and the forecast check is next
C28_Witness ==
    /\ trace = <<"route_intent", "update_trip_details">>
    /\ pc = "check_surf_forecast"
    /\ current_intent = Str("update_details")
    /\ response = Str("{\"departure_city\": \"Paris\", \"destination_city\": \"Bayonne\", \"departure_date\": \"2025-09-05\", \"return_date\": \"2025-09-07\"}")
    /\ DOMAIN trip_details = {"departure_city", "destination_city", "departure_date", "return_date"}
    /\ trip_details["departure_date"] = Date(739499)
    /\ trip_details["return_date"] = Date(739501)

\* C30: when a pending call of the batch fails (the tool raises or answers an
\* error text) or names a tool the registry does not hold, execute_tools
\* raises nothing, records an error, and handle_error is the next node.
C30_FailuresReportedThroughError ==
    [][ ( /\ pc = "execute_tools"
          /\ LET tool_calls == messages[Len(messages)].tool_calls
             IN  \/ \E i \in 1..Len(invoked') : CallFailed(invoked'[i])
                 \/ /\ Len(invoked') < Len(tool_calls)
                    /\ tool_calls[Len(invoked') + 1].name \notin ToolNames )
        => /\ exc' = ""
           /\ error' # None
           /\ pc' = "handle_error" ]_vars

\* C31: a step changes current_intent only if it is a step of route_intent,
\* trip_details only if of update_trip_details, error only if of
\* check_surf_forecast or execute_tools, surf_forecasts only if of
\* check_surf_forecast or execute_tools, the two other accumulators only if
\* of execute_tools, and messages only if of one of the seven nodes that
\* return messages.
C31_NodeWriteSets ==
    [][ /\ current_intent' # current_intent => pc = "route_intent"
        /\ trip_details' # trip_details => pc = "update_trip_details"
        /\ error' # error => pc \in {"check_surf_forecast", "execute_tools"}
        /\ surf_forecasts' # surf_forecasts
              => pc \in {"check_surf_forecast", "execute_tools"}
        /\ calendar_availabilities' # calendar_availabilities => pc = "execute_tools"
        /\ train_options' # train_options => pc = "execute_tools"
        /\ messages' # messages
              => pc \in {"chat_with_user", "request_missing_details",
                         "inform_user_of_bad_surf", "plan_travel_logistics",
                         "execute_tools", "summarize_plan", "handle_error"} ]_vars

\* C31 witness: the run is over and every field has been written: the intent
\* by the router, the details by the update, the forecasts, the two other
\* accumulators and the error by the forecast check and the tools, the
\* messages by the planner and handle_error
C31_Witness ==
    /\ pc = "END"
    /\ last = "handle_error"
    /\ current_intent = Str("update_details")
    /\ "destination_city" \in DOMAIN trip_details
    /\ error # None
    /\ surf_forecasts # << >>
    /\ calendar_availabilities # << >>
    /\ train_options # << >>
    /\ Runs("execute_tools") = 2

\* C32: a step of a terminal node that ends the run appends exactly one
\* message to the list, an assistant message without tool calls, so that the
\* last message of the final state is the reply of this run.
C32_ReplyIsLastMessage ==
    [][ (pc \in TerminalNodes /\ pc' = "END")
        => /\ Len(messages') = Len(messages) + 1
           /\ SubSeq(messages', 1, Len(messages)) = messages
           /\ messages'[Len(messages')].type = "ai"
           /\ messages'[Len(messages')].tool_calls = << >> ]_vars

\* C32 witness: the run ended with the summary after the planner's last
\* message and the tool messages of one batch
C32_Witness ==
    /\ pc = "END"
    /\ last = "summarize_plan"
    /\ Runs("execute_tools") = 1
    /\ messages[Len(messages)].type = "ai"
    /\ messages[Len(messages) - 1].type = "ai"
    /\ messages[Len(messages) - 2].type = "tool"
    /\ messages[Len(messages)].id # messages[Len(messages) - 1].id

\* C33: error is set only by a step of check_surf_forecast, which is followed
\* by inform_user_of_bad_surf, or by a step of execute_tools, which is
\* followed by handle_error; once error is set the only step left is that of
\* this terminal node, which ends the run and leaves error as it is.
C33_ErrorEndsTheRun ==
    [][ /\ (error = None /\ error' # None)
              => \/ pc = "check_surf_forecast" /\ pc' = "inform_user_of_bad_surf"
                 \/ pc = "execute_tools" /\ pc' = "handle_error"
        /\ error # None
              => /\ error' = error
                 /\ pc \in {"inform_user_of_bad_surf", "handle_error"}
                 /\ pc' = "END" ]_vars

\* C33 witness: the forecast check set error, inform_user_of_bad_surf ran
\* and the run ended with error still set
C33_Witness ==
    /\ pc = "END"
    /\ last = "inform_user_of_bad_surf"
    /\ error # None
    /\ trace = <<"route_intent", "update_trip_details", "check_surf_forecast",
                 "inform_user_of_bad_surf">>

\* C34: when check_surf_forecast is the next node to run, departure_city,
\* destination_city and departure_date are set in trip_details; and the
\* update check_surf_forecast returned is never the error of its missing
\* precondition.
C34_ForecastPrecondition ==
    /\ pc = "check_surf_forecast"
          => Present("departure_city") /\ Present("destination_city")
                /\ Present("departure_date")
    /\ (last = "check_surf_forecast" /\ "error" \in DOMAIN update)
          => update["error"] # Str("Missing departure date or destination for forecast.")

\* C34 witness: check_surf_forecast ran on complete details and returned the
\* forecasts of the tool
C34_Witness ==
    /\ last = "check_surf_forecast"
    /\ DOMAIN update = {"surf_forecasts"}
    /\ Present("departure_city")
    /\ Present("destination_city")
    /\ Present("departure_date")

\* C35: when handle_error is the next node to run, either the node before it
\* was execute_tools and its update set error, or the node before it was
\* route_intent, error is unset, and current_intent is "error" or no intent
\* at all (None or the empty text).
C35_WaysIntoHandleError ==
    pc = "handle_error"
        => \/ /\ last = "execute_tools"
              /\ "error" \in DOMAIN update
              /\ error = update["error"]
              /\ error # None
           \/ /\ last = "route_intent"
              /\ error = None
              /\ current_intent \in {Str("error"), None, Str("")}

\* C35 witness: the router could not read an intent and handle_error is next
\* with no error recorded
C35_Witness ==
    /\ pc = "handle_error"
    /\ last = "route_intent"
    /\ response = Str("I am not sure.")
    /\ current_intent = Str("error")
    /\ error = None

\* C36: when execute_tools is the next node to run, the node before it was
\* plan_travel_logistics, the last message is the assistant message that
\* node returned and it carries at least one tool call, and the planner has
\* run once more than execute_tools (each batch is executed once); an update
\* of execute_tools is never the empty update of its no-op branch.
C36_BatchComesFromThePlanner ==
    /\ pc = "execute_tools"
          => LET last_message == messages[Len(messages)]
             IN  /\ last = "plan_travel_logistics"
                 /\ last_message.type = "ai"
                 /\ last_message.tool_calls # << >>
                 /\ DOMAIN update = {"messages"}
                 /\ Len(update["messages"]) = 1
                 /\ update["messages"][1].tool_calls = last_message.tool_calls
                 /\ update["messages"][1].content = last_message.content
                 /\ Runs("plan_travel_logistics") = Runs("execute_tools") + 1
    /\ (last = "execute_tools" /\ pc # "RAISED") => update # EmptyObject

\* C36 witness: the second batch of the run, of two calls, is about to be
\* executed
C36_Witness ==
    /\ pc = "execute_tools"
    /\ Runs("execute_tools") = 1
    /\ Runs("plan_travel_logistics") = 2
    /\ Len(messages[Len(messages)].tool_calls) = 2

\* C37: when plan_travel_logistics is the next node to run, the chat history
\* the split gives for the messages is the initial message list of the run,
\* which is not empty, and the scratchpad is every message after it: at
\* least two messages (a request and a tool message) for each planner step
\* made so far.
C37_ChatHistoryIsTheInitialMessages ==
    pc = "plan_travel_logistics"
        => \E m \in InitialMessages :
              LET initial == AddMessages(<< >>, m)
                  split == SplitChatAndScratchpad(messages)
                  chat_history == split[1]
                  scratchpad == split[2]
              IN  /\ IsPrefix(initial, messages)
                  /\ chat_history = initial
                  /\ chat_history # << >>
                  /\ scratchpad = SubSeq(messages, Len(initial) + 1, Len(messages))
                  /\ Len(scratchpad) >= 2 * Runs("plan_travel_logistics")

\* C37 witness: the planner is about to run for the third time on the
\* dialogue of three messages, with the messages of two batches behind it
C37_Witness ==
    /\ pc = "plan_travel_logistics"
    /\ Runs("plan_travel_logistics") = 2
    /\ messages[3].content = <<"In Bayonne.">>
    /\ Len(SplitChatAndScratchpad(messages)[1]) = 3
    /\ Len(SplitChatAndScratchpad(messages)[2]) = 5

\* C38: when summarize_plan is the next node to run, error is unset,
\* surf_forecasts is not empty, the three mandatory trip details are set, the
\* last message is the assistant message without tool calls that
\* plan_travel_logistics just returned, and the nodes run so far are
\* route_intent, update_trip_details, check_surf_forecast and
\* plan_travel_logistics, followed only by rounds of execute_tools and
\* plan_travel_logistics.
C38_WayIntoSummarizePlan ==
    pc = "summarize_plan"
        => LET last_message == messages[Len(messages)]
           IN  /\ error = None
               /\ surf_forecasts # << >>
               /\ Present("departure_city") /\ Present("destination_city")
                     /\ Present("departure_date")
               /\ last = "plan_travel_logistics"
               /\ last_message.type = "ai"
               /\ last_message.tool_calls = << >>
               /\ DOMAIN update = {"messages"}
               /\ update["messages"][1].content = last_message.content
               /\ Len(trace) >= 4
               /\ SubSeq(trace, 1, 4) = <<"route_intent", "update_trip_details",
                                          "check_surf_forecast", "plan_travel_logistics">>
               /\ \A i \in 5..Len(trace) :
                     trace[i] = IF i % 2 = 1 THEN "execute_tools"
                                ELSE "plan_travel_logistics"

\* C38 witness: the summary is next after one round of tools
C38_Witness ==
    /\ pc = "summarize_plan"
    /\ trace = <<"route_intent", "update_trip_details", "check_surf_forecast",
                 "plan_travel_logistics", "execute_tools", "plan_travel_logistics">>
    /\ error = None
    /\ Len(surf_forecasts) >= 2

\* C39: at every point of a run the messages appended to the initial list
\* are one per step of plan_travel_logistics, one per tool call of each batch
\* that was answered, and one per terminal node that ran (exactly one when
\* the run has ended); so route_intent, update_trip_details,
\* check_surf_forecast and a failed batch append none.
C39_MessagesAppendedPerRun ==
    \E m \in InitialMessages :
        LET initial == AddMessages(<< >>, m)
        IN  /\ IsPrefix(initial, messages)
            /\ Len(messages) = Len(initial) + Runs("plan_travel_logistics")
                                  + AnsweredCalls(messages) + TerminalRuns
            /\ pc = "END" => TerminalRuns = 1

\* C39 witness: a run that answered a batch of two calls, then failed in a
\* second batch and ended with handle_error appended 1 + 2 + 1 + 0 + 1
\* messages to its one initial message
C39_Witness ==
    /\ pc = "END"
    /\ last = "handle_error"
    /\ trace = <<"route_intent", "update_trip_details", "check_surf_forecast",
                 "plan_travel_logistics", "execute_tools", "plan_travel_logistics",
                 "execute_tools", "handle_error">>
    /\ AnsweredCalls(messages) = 2
    /\ Len(messages) = 6

\* C40: a step of check_surf_forecast is the first of its run; it calls the
\* forecast tool at most once, for the destination city and for the Saturday
\* and the Sunday of the weekend of the departure date; and its update holds
\* exactly one key, error or surf_forecasts.
C40_OneForecastCall ==
    [][ pc = "check_surf_forecast"
        => /\ Runs("check_surf_forecast") = 0
           /\ Len(invoked') <= 1
           /\ \A i \in 1..Len(invoked') :
                 LET call == invoked'[i]
                     departure_date == trip_details["departure_date"]
                 IN  /\ call.name = "get_surf_forecast"
                     /\ call.args.spot = trip_details["destination_city"].s
                     /\ Weekday(call.args.from_date) = 5
                     /\ call.args.to_date = Date(call.args.from_date.ord + 1)
                     /\ departure_date.ord - 1 <= call.args.from_date.ord
                     /\ call.args.from_date.ord <= departure_date.ord + 5
           /\ DOMAIN update' \in {{"error"}, {"surf_forecasts"}} ]_vars

\* C40 witness: the forecast was asked for Bayonne for the weekend after
\* Friday 2025-09-05 and the tool's error text went to error
C40_Witness ==
    /\ last = "check_surf_forecast"
    /\ Len(invoked) = 1
    /\ invoked[1].args = [spot |-> "Bayonne", from_date |-> Date(739500),
                          to_date |-> Date(739501)]
    /\ DOMAIN update = {"error"}
    /\ error = update["error"]

====
